---------------------------- MODULE Spec2Model ----------------------------
(***************************************************************************)
(* Size selector for an Ecwid storefront (src/size-selector.js).           *)
(*                                                                         *)
(* The module models three parts of the script as state machines:          *)
(*   - Cache: the localStorage-backed cache (SpecCache);                   *)
(*   - the variation fetcher getProductVariations with its three sources   *)
(*     and their retry policy (SpecFetch);                                 *)
(*   - the processing engine: processProduct, processAllProducts,          *)
(*     processQueue, the mutation observer and the public operations       *)
(*     (SpecDom).                                                          *)
(* JavaScript runs one handler at a time: an action is the code between    *)
(* two suspension points (await, timer, animation frame).                  *)
(***************************************************************************)
EXTENDS Integers, Sequences, FiniteSets, TLC

VARIABLES
    storage,    \* the blob under CONFIG.cache.storageKey in localStorage
    now,        \* Date.now(), in milliseconds
    written,    \* history: per product, the last Cache.set call for it
    ret,        \* history: the last Cache call and what it returned
    fetch,      \* per call of getProductVariations in flight: where it is
    ecwid,      \* the storefront's global Ecwid object: how much is loaded
    presence,   \* per product card: not yet rendered, in the document, removed
    processed,  \* per product card: dataset.sizeSelectorProcessed
    selectors,  \* per product card: the .mushkana-size-selector fragments in it
    fetching,   \* per product card: the callers whose processProduct awaits its fetch
    frames,     \* per product card: the animation-frame callbacks scheduled
    outcome,    \* history: per product card, how the last pipeline with sizes ended
    isProcessing,       \* the flag of processAllProducts
    processingTimeout,  \* the timer id processAllProducts keeps
    runPc,              \* where the run of processAllProducts is
    runRest,            \* the product cards of the batches still to come
    processingQueue,    \* the mutation observer's queue
    debounceTimer,      \* the observer's debounce timer is pending
    drainTimers,        \* the product cards whose stagger timer of processQueue is pending
    productObserver,    \* the mutation observer exists
    input,      \* the argument of the function under examination
    output      \* what the function under examination made of it

cacheVars == <<storage, now, written, ret>>

fetchVars == <<fetch, ecwid>>

domVars ==
    <<presence, processed, selectors, fetching, frames, outcome, isProcessing,
      processingTimeout, runPc, runRest, processingQueue, debounceTimer,
      drainTimers, productObserver>>

pureVars == <<input, output>>

vars == <<cacheVars, fetchVars, domVars, pureVars>>

---------------------------------------------------------------------------
(* JavaScript values.                                                      *)

\* `undefined`: the value of a property an object does not have.
Undef == "undefined"

\* A value that is null, an array, or an object that is no array: [kind, arr].
JsNull == [kind |-> "null", arr |-> <<>>]

Arr(s) == [kind |-> "array", arr |-> s]

JsObject == [kind |-> "object", arr |-> <<>>]

\* `if (v)`: null is falsy, every array and object is truthy.
Truthy(v) == v.kind # "null"

\* `v && v.length > 0`: an object that is no array has no length.
NonEmpty(v) == v.kind = "array" /\ Len(v.arr) > 0

\* The scalar properties of a VariationRecord the script reads or writes.
ScalarFields == {"id", "inStock", "unlimited", "sku", "price"}

\* obj.f: undefined when the object has no property f.
Prop(obj, f) == IF f \in DOMAIN obj THEN obj[f] ELSE Undef

\* JSON.parse(JSON.stringify(obj)) of one record: a property whose value is
\* undefined is not written, so the parsed object does not have it.
JsonObject(obj) ==
    [f \in {g \in DOMAIN obj : g \notin ScalarFields \/ obj[g] # Undef} |-> obj[f]]

\* JSON.parse(JSON.stringify(records)) of an array of records.
JsonRoundTrip(recs) == [i \in 1..Len(recs) |-> JsonObject(recs[i])]

\* Two arrays of records read the same: same length, and every property the
\* script reads has the same value in both.
SameRecords(a, b) ==
    /\ Len(a) = Len(b)
    /\ \A i \in 1..Len(a) :
          /\ Prop(a[i], "options") = Prop(b[i], "options")
          /\ \A f \in ScalarFields : Prop(a[i], f) = Prop(b[i], f)

---------------------------------------------------------------------------
(* Inputs.                                                                 *)

ProductIds == {"p1", "p2"}

\* A combination as the catalog's REST endpoint returns it (JSON).
RecM ==
    [id |-> "101", options |-> <<[name |-> "Talle", value |-> "M"]>>,
     inStock |-> "true", unlimited |-> "false", sku |-> "SKU-M", price |-> "10"]

RecXS ==
    [id |-> "102", options |-> <<[name |-> "Talle", value |-> "XS"]>>,
     inStock |-> "false", unlimited |-> "false", sku |-> "SKU-XS", price |-> "10"]

\* A combination as getProductVariationsFromJSAPI builds it from a
\* combination that has no sku: the property is there, its value undefined.
RecJs ==
    [id |-> "103", options |-> <<[name |-> "Talle", value |-> "L"]>>,
     inStock |-> "true", unlimited |-> "false", sku |-> Undef, price |-> "10"]

\* The arrays of records a source can answer with.
RecordSeqs == {<<RecM>>, <<RecXS, RecM>>, <<RecJs>>}

---------------------------------------------------------------------------
(* Time.                                                                   *)

\* CONFIG.cache.expirationHours
expirationHours == 12

\* CONFIG.cache.expirationHours * 60 * 60 * 1000
ExpirationMs == expirationHours * 60 * 60 * 1000

\* The clock is observed every half expiration window.
ClockStepMs == ExpirationMs \div 2

\* The clock stops after this many steps.
MaxClockSteps == 4

---------------------------------------------------------------------------
(* Cache (localStorage).                                                   *)

\* localStorage.getItem(...) === null
Missing ==
    [present |-> FALSE, parsable |-> TRUE, timestamp |-> 0, products |-> <<>>]

Blob(t, products) ==
    [present |-> TRUE, parsable |-> TRUE, timestamp |-> t, products |-> products]

\* Cache.clear(): localStorage.removeItem(storageKey).
CacheClear(st) == Missing

\* Mutant: the window counted in days instead of hours.
CacheExpiredInDays(st, t) ==
    st.timestamp # 0 /\ (t - st.timestamp) > ExpirationMs * 24

CacheExpired(st, t) ==
    st.timestamp # 0 /\ (t - st.timestamp) > ExpirationMs

\* Cache.getAll(): [products |-> the mapping read, storage |-> the storage
\* afterwards]. An expired blob is removed.
CacheGetAll(st, t) ==
    IF ~st.present
    THEN [products |-> <<>>, storage |-> st]
    ELSE IF CacheExpired(st, t)
         THEN [products |-> <<>>, storage |-> CacheClear(st)]
         ELSE [products |-> st.products, storage |-> st]

\* Cache.get(productId): [value, storage]; value is cache[productId] || null.
CacheGet(st, t, pid) ==
    LET all == CacheGetAll(st, t)
    IN  [value   |-> IF pid \in DOMAIN all.products
                     THEN Arr(all.products[pid])
                     ELSE JsNull,
         storage |-> all.storage]

\* Mutant: the mapping is started afresh instead of merged into.
CacheMergeFresh(products, pid, recs) == [q \in {pid} |-> recs]

\* cache[productId] = variations, on the mapping getAll returned.
CacheMerge(products, pid, recs) ==
    [q \in (DOMAIN products) \cup {pid} |->
        IF q = pid THEN recs ELSE products[q]]

\* Mutant: a set on an existing blob keeps the blob's timestamp.
CacheSetKeepsStamp(st, t, pid, recs) ==
    LET all == CacheGetAll(st, t)
    IN  Blob(IF all.storage.present THEN all.storage.timestamp ELSE t,
             CacheMerge(all.products, pid, JsonRoundTrip(recs)))

\* Cache.set(productId, variations): the storage afterwards. The blob is
\* written with JSON.stringify and read back with JSON.parse.
CacheSet(st, t, pid, recs) ==
    LET all == CacheGetAll(st, t)
    IN  Blob(t, CacheMerge(all.products, pid, JsonRoundTrip(recs)))

---------------------------------------------------------------------------
(* Cache on a storage that can fail.                                       *)

\* The localStorage calls that can raise during one Cache operation:
\* getItem, setItem, removeItem.
StorageFaults == SUBSET {"read", "write", "remove"}

\* A text under the storage key that JSON.parse rejects, or that parses to
\* null.
Unparsable ==
    [present |-> TRUE, parsable |-> FALSE, timestamp |-> 0, products |-> <<>>]

\* Mutant: clear without its try/catch.
CacheClearUncaught(st, faults) ==
    [raised  |-> "remove" \in faults,
     storage |-> IF "remove" \in faults THEN st ELSE CacheClear(st)]

\* Cache.clear(): the error of removeItem is caught, and the blob stays.
CacheClearUnder(st, faults) ==
    [raised  |-> FALSE,
     storage |-> IF "remove" \in faults THEN st ELSE CacheClear(st)]

\* Cache.getAll(): an error of getItem or of JSON.parse, or reading a
\* property of null, ends in the catch, which returns {}; an expired blob
\* whose removal fails stays, and {} is returned.
CacheGetAllUnder(st, t, faults) ==
    IF "read" \in faults \/ (st.present /\ ~st.parsable)
    THEN [products |-> <<>>, storage |-> st]
    ELSE IF st.present /\ CacheExpired(st, t)
         THEN [products |-> <<>>, storage |-> CacheClearUnder(st, faults).storage]
         ELSE CacheGetAll(st, t)

\* Cache.get(productId): reading a property of the mapping cannot raise.
CacheGetUnder(st, t, pid, faults) ==
    LET all == CacheGetAllUnder(st, t, faults)
    IN  [raised  |-> FALSE,
         value   |-> IF pid \in DOMAIN all.products
                     THEN Arr(all.products[pid])
                     ELSE JsNull,
         storage |-> all.storage]

\* Cache.set(productId, variations): the error of setItem is caught, and
\* the storage stays as getAll left it.
CacheSetUnder(st, t, pid, recs, faults) ==
    LET all == CacheGetAllUnder(st, t, faults)
    IN  [raised  |-> FALSE,
         storage |-> IF "write" \in faults
                     THEN all.storage
                     ELSE Blob(t, CacheMerge(all.products, pid, JsonRoundTrip(recs)))]

\* Cache.getStats(): productsInCache, and the storage afterwards.
CacheGetStats(st, t) ==
    LET all == CacheGetAll(st, t)
    IN  [count |-> Cardinality(DOMAIN all.products), storage |-> all.storage]

---------------------------------------------------------------------------
(* The embedded client API source (Ecwid.getProduct).                      *)

\* CONFIG.sizeOptionName
sizeOptionName == "Talle"

\* String.prototype.toLowerCase on the option names of the model.
ToLowerCase(s) ==
    CASE s \in {"Talle", "TALLE", "talle"} -> "talle"
      [] s \in {"Talla", "TALLA", "talla"} -> "talla"
      [] s \in {"Size", "SIZE", "size"} -> "size"
      [] s \in {"Talles", "TALLES", "talles"} -> "talles"
      [] s \in {"Color", "color"} -> "color"
      [] OTHER -> s

\* Scalars that are falsy in `a || b`.
FalsyScalars == {Undef, "null", "false", "0", ""}

\* a || b on scalars.
OrElse(a, b) == IF a \in FalsyScalars THEN b ELSE a

\* Array.prototype.find: the index of the first element passing Test, or 0.
FirstIndex(seq, Test(_)) ==
    LET S == {i \in 1..Len(seq) : Test(seq[i])}
    IN  IF S = {} THEN 0 ELSE CHOOSE i \in S : \A j \in S : i <= j

\* The test of product.options.find(...): exact names, then lower-cased.
IsSizeOptionJs(opt) ==
    \/ opt.name = sizeOptionName
    \/ opt.name \in {"Talle", "Talla", "Size"}
    \/ ToLowerCase(opt.name) \in {"talle", "talla", "size"}

\* The test of combo.options?.find(...): exact names only.
IsSizeChoiceJs(opt) ==
    \/ opt.name = sizeOptionName
    \/ opt.name \in {"Talle", "Talla", "Size"}

\* The record pushed for a combination that carries a size choice.
ComboVariation(combo, product) ==
    [id        |-> combo.id,
     options   |-> <<combo.options[FirstIndex(combo.options, IsSizeChoiceJs)]>>,
     inStock   |-> IF combo.inStock # "false" THEN "true" ELSE "false",
     unlimited |-> OrElse(combo.unlimited, "false"),
     sku       |-> combo.sku,
     price     |-> OrElse(combo.price, product.price)]

\* The record pushed for a choice of the size option.
ChoiceVariation(choice, sizeOption, product) ==
    [id        |-> "null",
     options   |-> <<[name |-> sizeOption.name,
                      value |-> OrElse(choice.text, choice.title)]>>,
     inStock   |-> "true",
     unlimited |-> "true",
     sku       |-> "null",
     price     |-> product.price]

\* The callback given to Ecwid.getProduct: the value the promise resolves with.
GetProductCallback(product) ==
    IF ~product.exists \/ ~product.hasOptions
    THEN JsNull
    ELSE LET k == FirstIndex(product.options, IsSizeOptionJs)
         IN  IF k = 0
             THEN JsNull
             ELSE IF ~product.options[k].hasChoices
             THEN JsNull
             ELSE LET sizeOption == product.options[k]
                      HasSize(combo) == FirstIndex(combo.options, IsSizeChoiceJs) # 0
                      kept == SelectSeq(product.combinations, HasSize)
                      variations ==
                          IF Len(product.combinations) > 0
                          THEN [i \in 1..Len(kept) |-> ComboVariation(kept[i], product)]
                          ELSE [i \in 1..Len(sizeOption.choices) |->
                                   ChoiceVariation(sizeOption.choices[i], sizeOption, product)]
                  IN  IF Len(variations) > 0 THEN Arr(variations) ELSE JsNull

\* getProductVariationsFromJSAPI once Ecwid.getProduct was called: it threw
\* (caught: null), or it called back with a product.
JSAPIResult(answer) ==
    IF answer.throws THEN JsNull ELSE GetProductCallback(answer.product)

\* Products the storefront API can call back with.
Product(options, combinations) ==
    [exists |-> TRUE, hasOptions |-> TRUE, options |-> options,
     combinations |-> combinations, price |-> "10"]

Option(name, choices) == [name |-> name, hasChoices |-> TRUE, choices |-> choices]

Choice(text) == [text |-> text, title |-> Undef]

Combo(id, optName, value) ==
    [id |-> id, options |-> <<[name |-> optName, value |-> value]>>,
     inStock |-> Undef, unlimited |-> Undef, sku |-> Undef, price |-> Undef]

ProdNull ==
    [exists |-> FALSE, hasOptions |-> FALSE, options |-> <<>>,
     combinations |-> <<>>, price |-> Undef]

ProdNoOptions == [ProdNull EXCEPT !.exists = TRUE]

ProdColorOnly == Product(<<Option("Color", <<Choice("Red")>>)>>, <<>>)

ProdChoices == Product(<<Option("Talle", <<Choice("S"), Choice("M")>>)>>, <<>>)

ProdCombos ==
    Product(<<Option("Color", <<Choice("Red")>>), Option("Talle", <<Choice("L")>>)>>,
            <<Combo("103", "Talle", "L")>>)

ProdLowerCombos ==
    Product(<<Option("talle", <<Choice("L")>>)>>, <<Combo("104", "talle", "L")>>)

JsProducts ==
    {ProdNull, ProdNoOptions, ProdColorOnly, ProdChoices, ProdCombos, ProdLowerCombos}

JsApiAnswers ==
    {[throws |-> TRUE, product |-> ProdNull]}
        \cup {[throws |-> FALSE, product |-> p] : p \in JsProducts}

---------------------------------------------------------------------------
(* The network sources: the proxy and the direct API.                      *)

\* What one HTTP request ends with: a parsed 2xx body, a non-2xx status, a
\* rejected fetch() (no connection), or a 2xx body JSON.parse rejects.
Bodies == {JsNull, JsObject, Arr(<<>>), Arr(<<RecM>>), Arr(<<RecXS, RecM>>)}

Responses ==
    {[kind |-> "ok", status |-> 200, body |-> b] : b \in Bodies}
        \cup {[kind |-> "status", status |-> st, body |-> JsNull] :
                 st \in {403, 429, 500}}
        \cup {[kind |-> "network", status |-> 0, body |-> JsNull]}
        \cup {[kind |-> "badjson", status |-> 200, body |-> JsNull]}

\* The message of the error a failed attempt throws.
ErrorMessage(resp) ==
    CASE resp.kind = "status" /\ resp.status = 403 -> "HTTP error! status: 403"
      [] resp.kind = "status" /\ resp.status = 429 -> "HTTP error! status: 429"
      [] resp.kind = "status" -> "HTTP error! status: 500"
      [] resp.kind = "network" -> "Failed to fetch"
      [] OTHER -> "Unexpected token < in JSON at position 0"

\* error.message.includes('403')
Includes403(message) ==
    message = "HTTP error! status: 403"

\* What handling one response leads to: the source returns `value`, or waits
\* `delay` ms and calls itself with retryCount + 1 (`by429`: the wait is the
\* rate-limit one), or returns null, or lets an error escape.
Returns(v) == [next |-> "value", value |-> v, delay |-> 0, by429 |-> FALSE]

Waits(ms, by429) == [next |-> "wait", value |-> JsNull, delay |-> ms, by429 |-> by429]

ReturnsNull == [next |-> "null", value |-> JsNull, delay |-> 0, by429 |-> FALSE]

Throws == [next |-> "throw", value |-> JsNull, delay |-> 0, by429 |-> FALSE]

\* Mutant: the catch block retrying two more times.
ProxyCatchLongBudget(resp, retryCount) ==
    IF retryCount < 4 THEN Waits(1000, FALSE) ELSE ReturnsNull

\* Mutant: the last error is thrown on instead of answered with null.
ProxyCatchRethrow(resp, retryCount) ==
    IF retryCount < 2 THEN Waits(1000, FALSE) ELSE Throws

\* The catch block of getProductVariationsFromProxy.
ProxyCatch(resp, retryCount) ==
    IF retryCount < 2 THEN Waits(1000, FALSE) ELSE ReturnsNull

\* Mutant: the rate-limit budget is the budget of the other failures.
ProxyOutcomeShortBudget(resp, retryCount) ==
    IF resp.kind = "ok"
    THEN Returns(resp.body)
    ELSE IF resp.kind = "status" /\ resp.status = 429 /\ retryCount < 2
         THEN Waits((retryCount + 1) * 2000, TRUE)
         ELSE ProxyCatch(resp, retryCount)

\* getProductVariationsFromProxy from the response of its request on.
ProxyOutcome(resp, retryCount) ==
    IF resp.kind = "ok"
    THEN Returns(resp.body)
    ELSE IF resp.kind = "status" /\ resp.status = 429 /\ retryCount < 3
         THEN Waits((retryCount + 1) * 2000, TRUE)
         ELSE ProxyCatch(resp, retryCount)

\* The catch block of getProductVariationsFromAPI.
ApiCatch(resp, retryCount) ==
    IF retryCount < 2 /\ ~Includes403(ErrorMessage(resp))
    THEN Waits(1000, FALSE)
    ELSE ReturnsNull

\* Mutant: 403 is handled as any other status, and retried.
ApiOutcomeRetry403(resp, retryCount) ==
    IF resp.kind = "ok"
    THEN Returns(resp.body)
    ELSE IF resp.kind = "status" /\ resp.status = 429 /\ retryCount < 3
         THEN Waits((retryCount + 1) * 2000, TRUE)
         ELSE IF retryCount < 2 THEN Waits(1000, FALSE) ELSE ReturnsNull

\* getProductVariationsFromAPI from the response of its request on.
ApiOutcome(resp, retryCount) ==
    IF resp.kind = "ok"
    THEN Returns(resp.body)
    ELSE IF resp.kind = "status" /\ resp.status = 403
         THEN ReturnsNull
         ELSE IF resp.kind = "status" /\ resp.status = 429 /\ retryCount < 3
              THEN Waits((retryCount + 1) * 2000, TRUE)
              ELSE ApiCatch(resp, retryCount)

\* History: how a response counts for the retry policy.
RespClass(resp) ==
    CASE resp.kind = "ok" -> "ok"
      [] resp.kind = "status" /\ resp.status = 429 -> "429"
      [] resp.kind = "status" /\ resp.status = 403 -> "403"
      [] OTHER -> "other"

---------------------------------------------------------------------------
(* getProductVariations.                                                   *)

\* The calls of getProductVariations that can be in flight together.
Fetchers == {"f1", "f2"}

\* One call at a time: a fetch, then the next one.
SoloFetchers == {"f1"}

\* A call: its position, its arguments and locals, and its history (nreq:
\* the calls made to each source; last, got, r429: the class and the body of
\* the last response and the rate-limit waits of the source it came from,
\* kept until the next source answers; promised: what the cache owed the
\* call when it started; inCache: the cache held the value when the call
\* returned).
IdleFetch ==
    [pc |-> "idle", pid |-> "p1", retryCount |-> 0, delay |-> 0,
     cached |-> JsNull, jsApiResult |-> JsNull, proxyResult |-> JsNull,
     apiResult |-> JsNull, value |-> JsNull,
     nreq |-> [js |-> 0, proxy |-> 0, api |-> 0],
     last |-> "none", got |-> JsNull, r429 |-> 0, promised |-> JsNull,
     inCache |-> FALSE]

\* Mutant: the cached value is looked up and not used.
CacheHitIgnored(cached) == FALSE

\* `if (cached)`
CacheHit(cached) == Truthy(cached)

\* Mutant: `if (result)`, which an empty array passes.
ShortCircuitOnTruthy(result) == Truthy(result)

\* `if (result && result.length > 0)`
ShortCircuit(result) == NonEmpty(result)

\* Mutant: the result is returned and not cached.
FetcherCacheSetSkipped(st, t, pid, recs) == st

\* Mutant: the call writing a blob with its own entry only, without
\* reading the blob first.
FetcherCacheSetBlind(st, t, pid, recs) ==
    Blob(t, [q \in {pid} |-> JsonRoundTrip(recs)])

\* The Cache.set call of getProductVariations.
FetcherCacheSet(st, t, pid, recs) == CacheSet(st, t, pid, recs)

\* History: what Cache.get owes a call for pid that starts now.
Promised(pid) ==
    IF written[pid].valid /\ now - written[pid].at <= ExpirationMs
    THEN Arr(written[pid].recs)
    ELSE JsNull

\* `await fetch(proxyUrl...)` is issued with getProductVariations' retryCount.
ToProxy(fr) ==
    [fr EXCEPT !.pc = "proxy", !.retryCount = 0, !.delay = 0,
               !.nreq.proxy = @ + 1]

\* `await fetch(apiUrl...)` is issued with getProductVariations' retryCount.
ToApi(fr) ==
    [fr EXCEPT !.pc = "api", !.retryCount = 0, !.delay = 0, !.nreq.api = @ + 1]

\* The end of getProductVariations: `return []`.
ToEmpty(fr) == [fr EXCEPT !.pc = "done", !.value = Arr(<<>>)]

\* After a source answered `result`: cache and return it, or go `onward`.
Settle(f, fr, result, onward) ==
    IF ShortCircuit(result)
    THEN LET st == FetcherCacheSet(storage, now, fr.pid, result.arr)
         IN  /\ storage' = st
             /\ written' = [written EXCEPT ![fr.pid] =
                               [valid |-> TRUE, at |-> now, recs |-> result.arr]]
             /\ fetch' = [fetch EXCEPT ![f] =
                   [fr EXCEPT !.pc = "done", !.value = result,
                              !.inCache = /\ fr.pid \in DOMAIN st.products
                                          /\ SameRecords(st.products[fr.pid], result.arr)]]
    ELSE /\ fetch' = [fetch EXCEPT ![f] = onward]
         /\ UNCHANGED <<storage, written>>

\* getProductVariations(productId) up to its first await.
StartFetch(f, pid) ==
    /\ fetch[f].pc = "idle"
    /\ LET c  == CacheGet(storage, now, pid)
           fr == [IdleFetch EXCEPT !.pid = pid, !.cached = c.value,
                                   !.promised = Promised(pid)]
       IN  /\ storage' = c.storage
           /\ fetch' = [fetch EXCEPT ![f] =
                 IF CacheHit(c.value)
                 THEN [fr EXCEPT !.pc = "done", !.value = c.value]
                 ELSE IF ecwid = "ready"
                      THEN [fr EXCEPT !.pc = "jsapi", !.nreq.js = 1]
                      ELSE ToProxy(fr)]
    /\ UNCHANGED <<now, written, ret, ecwid, domVars, pureVars>>

\* Ecwid.getProduct answers (or threw): the rest of the JS API branch.
JsApiRespond(f, answer) ==
    /\ fetch[f].pc = "jsapi"
    /\ LET fr == [fetch[f] EXCEPT !.jsApiResult = JSAPIResult(answer)]
       IN  Settle(f, fr, fr.jsApiResult, ToProxy(fr))
    /\ UNCHANGED <<now, ret, ecwid, domVars, pureVars>>

\* The proxy's request ends: getProductVariationsFromProxy from there on.
ProxyRespond(f, resp) ==
    /\ fetch[f].pc = "proxy"
    /\ LET o  == ProxyOutcome(resp, fetch[f].retryCount)
           fr == [fetch[f] EXCEPT !.last = RespClass(resp), !.got = resp.body]
       IN  IF o.next = "wait"
           THEN /\ fetch' = [fetch EXCEPT ![f] =
                      [fr EXCEPT !.pc = "proxyWait", !.delay = o.delay,
                                 !.r429 = IF o.by429 THEN @ + 1 ELSE @]]
                /\ UNCHANGED <<storage, written>>
           ELSE IF o.next = "throw"
           THEN /\ fetch' = [fetch EXCEPT ![f] = [fr EXCEPT !.pc = "rejected"]]
                /\ UNCHANGED <<storage, written>>
           ELSE LET fr2 == [fr EXCEPT !.proxyResult = o.value]
                IN  Settle(f, fr2, o.value, ToApi(fr2))
    /\ UNCHANGED <<now, ret, ecwid, domVars, pureVars>>

\* The proxy's backoff timer fires: the call with retryCount + 1.
ProxyRetry(f) ==
    /\ fetch[f].pc = "proxyWait"
    /\ fetch' = [fetch EXCEPT ![f] =
          [@ EXCEPT !.pc = "proxy", !.retryCount = @ + 1, !.delay = 0,
                    !.nreq.proxy = @ + 1]]
    /\ UNCHANGED <<storage, now, written, ret, ecwid, domVars, pureVars>>

\* The direct API's request ends: getProductVariationsFromAPI from there on.
ApiRespond(f, resp) ==
    /\ fetch[f].pc = "api"
    /\ LET o  == ApiOutcome(resp, fetch[f].retryCount)
           fr == [fetch[f] EXCEPT !.last = RespClass(resp), !.got = resp.body,
                                  !.r429 = IF fetch[f].retryCount = 0 THEN 0 ELSE @]
       IN  IF o.next = "wait"
           THEN /\ fetch' = [fetch EXCEPT ![f] =
                      [fr EXCEPT !.pc = "apiWait", !.delay = o.delay,
                                 !.r429 = IF o.by429 THEN @ + 1 ELSE @]]
                /\ UNCHANGED <<storage, written>>
           ELSE IF o.next = "throw"
           THEN /\ fetch' = [fetch EXCEPT ![f] = [fr EXCEPT !.pc = "rejected"]]
                /\ UNCHANGED <<storage, written>>
           ELSE LET fr2 == [fr EXCEPT !.apiResult = o.value]
                IN  Settle(f, fr2, o.value, ToEmpty(fr2))
    /\ UNCHANGED <<now, ret, ecwid, domVars, pureVars>>

\* The direct API's backoff timer fires: the call with retryCount + 1.
ApiRetry(f) ==
    /\ fetch[f].pc = "apiWait"
    /\ fetch' = [fetch EXCEPT ![f] =
          [@ EXCEPT !.pc = "api", !.retryCount = @ + 1, !.delay = 0,
                    !.nreq.api = @ + 1]]
    /\ UNCHANGED <<storage, now, written, ret, ecwid, domVars, pureVars>>

\* The caller takes the value: the call is over.
FetchReturn(f) ==
    /\ fetch[f].pc = "done"
    /\ fetch' = [fetch EXCEPT ![f] = IdleFetch]
    /\ UNCHANGED <<storage, now, written, ret, ecwid, domVars, pureVars>>

\* The storefront's script loads: Ecwid is defined, then has getProduct.
EcwidLoads ==
    /\ ecwid # "ready"
    /\ ecwid' = IF ecwid = "undefined" THEN "partial" ELSE "ready"
    /\ UNCHANGED <<storage, now, written, ret, fetch, domVars, pureVars>>

---------------------------------------------------------------------------
(* extractSizes and createSizeSelector.                                    *)

\* No function is under examination.
NoInput == JsNull

NoOutput == [pc |-> "idle"]

InitPureVars == input = NoInput /\ output = NoOutput

\* String.prototype.toUpperCase on the size values of the inputs.
ToUpperCase(s) ==
    CASE s \in {"xs", "Xs", "XS"} -> "XS"
      [] s \in {"m", "M"} -> "M"
      [] s \in {"l", "L"} -> "L"
      [] s \in {"q", "Q"} -> "Q"
      [] OTHER -> s

\* const sizeOrder = { 'XS': 1, ... }: sizeOrder[key], 0 standing for the
\* undefined of a key the table does not have.
sizeOrder(key) ==
    CASE key = "XS" -> 1
      [] key = "S" -> 2
      [] key = "M" -> 3
      [] key = "L" -> 4
      [] key = "XL" -> 5
      [] key = "XXL" -> 6
      [] key = "XXXL" -> 7
      [] OTHER -> 0

\* Mutant: a value the table does not have is ranked 0.
SizeRankOrZero(value) == sizeOrder(ToUpperCase(value))

\* sizeOrder[a.value.toUpperCase()] || 999
SizeRank(value) ==
    IF sizeOrder(ToUpperCase(value)) = 0
    THEN 999
    ELSE sizeOrder(ToUpperCase(value))

\* opt.name || opt.nameTranslated?.es_419 || opt.nameTranslated?.es || ''
OptName(opt) ==
    OrElse(OrElse(Prop(opt, "name"), Prop(opt, "nameTranslated")), "")

\* The test of variation.options?.find(...) in extractSizes.
IsSizeOption(opt) ==
    \/ OptName(opt) = sizeOptionName
    \/ OptName(opt) \in {"Size", "Talla", "Talle", "TALLE", "TALLES", "Talles"}
    \/ ToLowerCase(OptName(opt)) \in {"size", "talle", "talla", "talles"}

\* Mutant: a record is in stock unless it is explicitly out of stock.
InStockUnlessFalse(variation) ==
    IF Prop(variation, "inStock") = "false" THEN "false" ELSE "true"

\* variation.inStock !== false && (variation.unlimited || variation.inStock === true)
InStock(variation) ==
    IF Prop(variation, "inStock") = "false"
    THEN "false"
    ELSE OrElse(Prop(variation, "unlimited"),
                IF Prop(variation, "inStock") = "true" THEN "true" ELSE "false")

\* The callback of variations.map(...): the SizeEntry of a record, or null.
NoEntry == [isNull |-> TRUE]

SizeEntry(variation) ==
    LET options == IF "options" \in DOMAIN variation THEN variation.options ELSE <<>>
        k == FirstIndex(options, IsSizeOption)
    IN  IF k = 0
        THEN NoEntry
        ELSE [isNull      |-> FALSE,
              value       |-> options[k].value,
              inStock     |-> InStock(variation),
              variationId |-> Prop(variation, "id"),
              sku         |-> Prop(variation, "sku"),
              price       |-> OrElse(Prop(variation, "price"),
                                     Prop(variation, "defaultDisplayedPrice"))]

\* sizes.sort((a, b) => orderA - orderB): Array.prototype.sort is stable,
\* so an entry goes after every entry before it that does not rank higher.
RECURSIVE SortSizes(_)
SortSizes(sizes) ==
    IF sizes = <<>>
    THEN <<>>
    ELSE LET front  == SortSizes(SubSeq(sizes, 1, Len(sizes) - 1))
             last   == sizes[Len(sizes)]
             before == {i \in 1..Len(front) :
                           SizeRank(front[i].value) - SizeRank(last.value) <= 0}
             n      == Cardinality(before)
         IN  SubSeq(front, 1, n) \o <<last>> \o SubSeq(front, n + 1, Len(front))

\* extractSizes(variations)
extractSizes(variations) ==
    IF variations.kind # "array" \/ Len(variations.arr) = 0
    THEN <<>>
    ELSE LET mapped == [i \in 1..Len(variations.arr) |-> SizeEntry(variations.arr[i])]
             NotNull(size) == ~size.isNull
         IN  SortSizes(SelectSeq(mapped, NotNull))

\* The button createSizeSelector makes of a SizeEntry: disabled and with
\* no click listener when the entry is not in stock.
SizeButton(size) ==
    [size        |-> size.value,
     variationId |-> size.variationId,
     disabled    |-> size.inStock \in FalsyScalars,
     listener    |-> size.inStock \notin FalsyScalars]

\* createSizeSelector(sizes, productId): the buttons of the fragment; null
\* when there is no size.
createSizeSelector(sizes) ==
    [isNull  |-> Len(sizes) = 0,
     buttons |-> [i \in 1..Len(sizes) |-> SizeButton(sizes[i])]]

---------------------------------------------------------------------------
(* The product cards of the page and the processing engine.                *)

\* The product cards the storefront renders, in document order.
NodeOrder == <<"n1", "n2">>

Nodes == {NodeOrder[i] : i \in DOMAIN NodeOrder}

\* extractProductId found no id.
NoId == "null"

\* extractProductId: every card of the page carries a product id.
extractProductId(n) == IF n = "n1" THEN "p1" ELSE "p2"

\* findPriceElement: the first card has a price element, the second has
\* none, so that its selector goes to the end of the card's content.
findPriceElement(n) == n = "n1"

\* const batchSize = 5
batchSize == 5

\* The animation-frame callbacks that may be scheduled on one card at once.
MaxFrames == 2

\* The callers of processProduct: a batch of processAllProducts, and
\* processQueue.
Callers == {"batch", "queue"}

\* What awaiting the fetch gives processProduct: no variation or no size,
\* at least one size, or an exception of extractSizes.
FetchResults == {"empty", "sizes", "throws"}

Min(a, b) == IF a < b THEN a ELSE b

\* getAllProductCards, under the flags given: the cards in the document
\* that are not flagged 'true'.
getAllProductCards(flags) ==
    LET Unprocessed(n) == presence[n] = "attached" /\ flags[n] # "true"
    IN  SelectSeq(NodeOrder, Unprocessed)

\* What the cleanup leaves of a card's fragments: the first one.
KeepFirst(count) == IF count > 1 THEN 1 ELSE count

\* cleanupPreviousSelectors, and the body of removeDuplicates: only the
\* cards getAllProductCards returns are cleaned.
cleanupPreviousSelectors(flags) ==
    LET cards == getAllProductCards(flags)
    IN  [n \in Nodes |->
            IF \E i \in DOMAIN cards : cards[i] = n
            THEN KeepFirst(selectors[n])
            ELSE selectors[n]]

\* Mutant: processProduct without its flag check.
PassesFlagAlways(n) == TRUE

\* processProduct up to its await: the flag check, and then the
\* existing-selector check and the product id.
PassesFlag(n) == processed[n] # "true"

AwaitsFetch(n) ==
    PassesFlag(n) /\ selectors[n] = 0 /\ extractProductId(n) # NoId

\* processProduct called by caller c on each card of B, one call after the
\* other in the same task: each call runs up to its await.
processProduct(B, c) ==
    /\ processed' = [n \in Nodes |->
                        IF n \in B /\ PassesFlag(n) THEN "true" ELSE processed[n]]
    /\ fetching' = [n \in Nodes |->
                        IF n \in B /\ AwaitsFetch(n)
                        THEN fetching[n] \cup {c}
                        ELSE fetching[n]]

\* The animation-frame callback inserts its fragment without looking for
\* one that is already there.
FrameInsertsUnchecked(price, count) == TRUE

\* The animation-frame callback of processProduct: after the price element
\* when there is one, else at the end of the card's content, and in both
\* cases only when the card has no fragment.
FrameInserts(price, count) ==
    IF price /\ count = 0
    THEN TRUE
    ELSE IF ~price THEN count = 0 ELSE FALSE

\* The await of processProduct resumes, for caller c, on card n.
PipeFetched(n, c, result) ==
    /\ c \in fetching[n]
    /\ fetching' = [fetching EXCEPT ![n] = @ \ {c}]
    /\ IF result = "sizes" /\ selectors[n] = 0 /\ presence[n] = "attached"
       THEN /\ frames[n] < MaxFrames
            /\ frames' = [frames EXCEPT ![n] = @ + 1]
       ELSE UNCHANGED frames
    /\ outcome' = IF result = "sizes" /\ selectors[n] > 0
                  THEN [outcome EXCEPT ![n] = "kept"]
                  ELSE outcome
    /\ UNCHANGED <<presence, processed, selectors, isProcessing,
                   processingTimeout, runPc, runRest, processingQueue,
                   debounceTimer, drainTimers, productObserver>>
    /\ UNCHANGED <<cacheVars, fetchVars, pureVars>>

\* An animation-frame callback of card n runs.
FrameFires(n) ==
    /\ frames[n] > 0
    /\ frames' = [frames EXCEPT ![n] = @ - 1]
    /\ IF FrameInserts(findPriceElement(n), selectors[n])
       THEN /\ selectors' = [selectors EXCEPT ![n] = @ + 1]
            /\ outcome' = [outcome EXCEPT ![n] = "inserted"]
       ELSE /\ outcome' = [outcome EXCEPT ![n] = "discarded"]
            /\ UNCHANGED selectors
    /\ UNCHANGED <<presence, processed, fetching, isProcessing,
                   processingTimeout, runPc, runRest, processingQueue,
                   debounceTimer, drainTimers, productObserver>>
    /\ UNCHANGED <<cacheVars, fetchVars, pureVars>>

\* Mutant: processAllProducts without its isProcessing guard.
processAllProductsUnguarded ==
    /\ isProcessing' = TRUE
    /\ processingTimeout' = TRUE
    /\ runPc' = "settle"

\* processAllProducts up to its first await.
processAllProducts ==
    IF isProcessing
    THEN UNCHANGED <<isProcessing, processingTimeout, runPc>>
    ELSE /\ isProcessing' = TRUE
         /\ processingTimeout' = TRUE
         /\ runPc' = "settle"

\* Mutant: processAllProducts ending without releasing its flag.
RunEndsFlagKept ==
    /\ isProcessing' = isProcessing
    /\ processingTimeout' = FALSE
    /\ runPc' = "idle"
    /\ runRest' = <<>>

\* The end of processAllProducts: its finally block.
RunEnds ==
    /\ isProcessing' = FALSE
    /\ processingTimeout' = FALSE
    /\ runPc' = "idle"
    /\ runRest' = <<>>

\* The next batch of processAllProducts starts: the first batchSize cards
\* of those left, each with a product id handed to processProduct.
BatchStarts(cards) ==
    LET size == Min(batchSize, Len(cards))
        B == {cards[i] : i \in 1..size}
    IN  /\ processProduct({n \in B : extractProductId(n) # NoId}, "batch")
        /\ runRest' = SubSeq(cards, size + 1, Len(cards))
        /\ runPc' = "batch"
        /\ UNCHANGED <<isProcessing, processingTimeout>>

\* A trigger of init calls processAllProducts: the page loaded.
PageLoaded ==
    /\ processAllProducts
    /\ UNCHANGED <<presence, processed, selectors, fetching, frames, outcome,
                   runRest, processingQueue, debounceTimer, drainTimers,
                   productObserver>>
    /\ UNCHANGED <<cacheVars, fetchVars, pureVars>>

\* The settle timer of processAllProducts fires: the scan, and the first
\* batch.
SettleFires ==
    /\ runPc = "settle"
    /\ IF Len(getAllProductCards(processed)) = 0
       THEN RunEnds /\ UNCHANGED <<processed, fetching>>
       ELSE BatchStarts(getAllProductCards(processed))
    /\ UNCHANGED <<presence, selectors, frames, outcome, processingQueue,
                   debounceTimer, drainTimers, productObserver>>
    /\ UNCHANGED <<cacheVars, fetchVars, pureVars>>

\* Promise.allSettled of the batch resolves: the pause starts.
BatchSettled ==
    /\ runPc = "batch"
    /\ \A n \in Nodes : "batch" \notin fetching[n]
    /\ runPc' = "pause"
    /\ UNCHANGED <<presence, processed, selectors, fetching, frames, outcome,
                   isProcessing, processingTimeout, runRest, processingQueue,
                   debounceTimer, drainTimers, productObserver>>
    /\ UNCHANGED <<cacheVars, fetchVars, pureVars>>

\* The pause after a batch is over: the next batch, or the end of the run.
PauseFires ==
    /\ runPc = "pause"
    /\ IF runRest = <<>>
       THEN RunEnds /\ UNCHANGED <<processed, fetching>>
       ELSE BatchStarts(runRest)
    /\ UNCHANGED <<presence, selectors, frames, outcome, processingQueue,
                   debounceTimer, drainTimers, productObserver>>
    /\ UNCHANGED <<cacheVars, fetchVars, pureVars>>

\* The page as the script finds it: some cards rendered, none touched.
InitDomVars ==
    /\ presence \in [Nodes -> {"absent", "attached"}]
    /\ processed = [n \in Nodes |-> Undef]
    /\ selectors = [n \in Nodes |-> 0]
    /\ fetching = [n \in Nodes |-> {}]
    /\ frames = [n \in Nodes |-> 0]
    /\ outcome = [n \in Nodes |-> "none"]
    /\ isProcessing = FALSE
    /\ processingTimeout = FALSE
    /\ runPc = "idle"
    /\ runRest = <<>>
    /\ processingQueue = {}
    /\ debounceTimer = FALSE
    /\ drainTimers = {}
    /\ productObserver = FALSE

---------------------------------------------------------------------------
(* The cache driven call by call.                                          *)

NoWrite == [valid |-> FALSE, at |-> 0, recs |-> <<>>]

NoRet ==
    [op |-> "none", pid |-> "p1", at |-> 0, stale |-> FALSE, value |-> JsNull,
     count |-> 0, faults |-> {}, raised |-> FALSE]

InitCacheVars ==
    /\ storage = Missing
    /\ now = ClockStepMs
    /\ written = [p \in ProductIds |-> NoWrite]
    /\ ret = NoRet

InitFetchVars ==
    /\ fetch = [f \in Fetchers |-> IdleFetch]
    /\ ecwid = "undefined"

\* No card is rendered while the cache alone is driven.
NoCards == presence = [n \in Nodes |-> "absent"]

InitCache ==
    InitCacheVars /\ InitFetchVars /\ InitDomVars /\ NoCards /\ InitPureVars

\* History: the stored blob was written more than one window ago.
BlobIsStale == storage.present /\ now - storage.timestamp > ExpirationMs

\* Time passes.
Tick ==
    /\ now < MaxClockSteps * ClockStepMs
    /\ now' = now + ClockStepMs
    /\ UNCHANGED <<storage, written, ret, fetchVars, domVars, pureVars>>

SetCall(pid, recs) ==
    /\ storage' = CacheSet(storage, now, pid, recs)
    /\ written' = [written EXCEPT ![pid] = [valid |-> TRUE, at |-> now, recs |-> recs]]
    /\ ret' = [NoRet EXCEPT !.op = "set", !.pid = pid, !.at = now]
    /\ UNCHANGED <<now, fetchVars, domVars, pureVars>>

GetCall(pid) ==
    /\ storage' = CacheGet(storage, now, pid).storage
    /\ ret' = [NoRet EXCEPT !.op = "get", !.pid = pid, !.at = now,
                             !.stale = BlobIsStale,
                             !.value = CacheGet(storage, now, pid).value]
    /\ UNCHANGED <<now, written, fetchVars, domVars, pureVars>>

\* MushkanaSizeSelector.clearCache()
ClearCall ==
    /\ storage' = CacheClear(storage)
    /\ written' = [p \in ProductIds |-> NoWrite]
    /\ ret' = [NoRet EXCEPT !.op = "clear", !.at = now]
    /\ UNCHANGED <<now, fetchVars, domVars, pureVars>>

\* MushkanaSizeSelector.getCacheStats()
StatsCall ==
    /\ storage' = CacheGetStats(storage, now).storage
    /\ ret' = [NoRet EXCEPT !.op = "stats", !.at = now,
                             !.count = CacheGetStats(storage, now).count]
    /\ UNCHANGED <<now, written, fetchVars, domVars, pureVars>>

NextCache ==
    \/ Tick
    \/ \E pid \in ProductIds, recs \in RecordSeqs \cup {<<>>} : SetCall(pid, recs)
    \/ \E pid \in ProductIds : GetCall(pid)
    \/ ClearCall
    \/ StatsCall

SpecCache == InitCache /\ [][NextCache]_vars

---------------------------------------------------------------------------
(* The cache driven call by call on a storage that can fail. The history  *)
(* of the sets, written, is not kept here.                                *)

\* Something else writes a text that is no blob of the cache under the key.
ForeignWrite ==
    /\ storage' = Unparsable
    /\ ret' = [NoRet EXCEPT !.op = "foreign", !.at = now]
    /\ UNCHANGED <<now, written, fetchVars, domVars, pureVars>>

FaultyGet(pid, faults) ==
    /\ storage' = CacheGetUnder(storage, now, pid, faults).storage
    /\ ret' = [NoRet EXCEPT !.op = "get", !.pid = pid, !.at = now,
                             !.stale = BlobIsStale, !.faults = faults,
                             !.raised = CacheGetUnder(storage, now, pid, faults).raised,
                             !.value = CacheGetUnder(storage, now, pid, faults).value]
    /\ UNCHANGED <<now, written, fetchVars, domVars, pureVars>>

FaultySet(pid, recs, faults) ==
    /\ storage' = CacheSetUnder(storage, now, pid, recs, faults).storage
    /\ ret' = [NoRet EXCEPT !.op = "set", !.pid = pid, !.at = now,
                             !.stale = BlobIsStale, !.faults = faults,
                             !.raised = CacheSetUnder(storage, now, pid, recs, faults).raised]
    /\ UNCHANGED <<now, written, fetchVars, domVars, pureVars>>

FaultyClear(faults) ==
    /\ storage' = CacheClearUnder(storage, faults).storage
    /\ ret' = [NoRet EXCEPT !.op = "clear", !.at = now, !.faults = faults,
                             !.raised = CacheClearUnder(storage, faults).raised]
    /\ UNCHANGED <<now, written, fetchVars, domVars, pureVars>>

NextStore ==
    \/ Tick
    \/ ForeignWrite
    \/ \E pid \in ProductIds, faults \in StorageFaults : FaultyGet(pid, faults)
    \/ \E pid \in ProductIds, recs \in RecordSeqs, faults \in StorageFaults :
          FaultySet(pid, recs, faults)
    \/ \E faults \in StorageFaults : FaultyClear(faults)

SpecStore == InitCache /\ [][NextStore]_vars

---------------------------------------------------------------------------
(* The fetcher, with the clock and the public clearCache.                  *)

InitFetch ==
    InitCacheVars /\ InitFetchVars /\ InitDomVars /\ NoCards /\ InitPureVars

\* MushkanaSizeSelector.clearCache() while calls are in flight.
ClearCacheCall ==
    /\ storage' = CacheClear(storage)
    /\ written' = [p \in ProductIds |-> NoWrite]
    /\ UNCHANGED <<now, ret, fetchVars, domVars, pureVars>>

NextFetch ==
    \/ Tick
    \/ ClearCacheCall
    \/ EcwidLoads
    \/ \E f \in SoloFetchers, pid \in ProductIds : StartFetch(f, pid)
    \/ \E f \in SoloFetchers, answer \in JsApiAnswers : JsApiRespond(f, answer)
    \/ \E f \in SoloFetchers, resp \in Responses : ProxyRespond(f, resp)
    \/ \E f \in SoloFetchers : ProxyRetry(f)
    \/ \E f \in SoloFetchers, resp \in Responses : ApiRespond(f, resp)
    \/ \E f \in SoloFetchers : ApiRetry(f)
    \/ \E f \in SoloFetchers : FetchReturn(f)

SpecFetch == InitFetch /\ [][NextFetch]_vars

---------------------------------------------------------------------------
(* Two pipelines of one batch: two calls of getProductVariations in        *)
(* flight together, for different products.                                *)

\* The product each call is made for.
PidOf(f) == IF f = "f1" THEN "p1" ELSE "p2"

\* What the network sources answer to the two calls.
PairResponses ==
    {[kind |-> "ok", status |-> 200, body |-> Arr(<<RecM>>)],
     [kind |-> "ok", status |-> 200, body |-> Arr(<<RecXS, RecM>>)],
     [kind |-> "ok", status |-> 200, body |-> Arr(<<>>)],
     [kind |-> "status", status |-> 403, body |-> JsNull],
     [kind |-> "network", status |-> 0, body |-> JsNull]}

NextPair ==
    \/ Tick
    \/ \E f \in Fetchers : StartFetch(f, PidOf(f))
    \/ \E f \in Fetchers, resp \in PairResponses : ProxyRespond(f, resp)
    \/ \E f \in Fetchers : ProxyRetry(f)
    \/ \E f \in Fetchers, resp \in PairResponses : ApiRespond(f, resp)
    \/ \E f \in Fetchers : ApiRetry(f)
    \/ \E f \in Fetchers : FetchReturn(f)

SpecPair == InitFetch /\ [][NextPair]_vars

---------------------------------------------------------------------------
(* Claims about the fetcher, checked under SpecFetch.                      *)

\* The direct API answered at least once in this call.
ApiAnswered(fr) == fr.nreq.api > 0 /\ ~(fr.pc = "api" /\ fr.retryCount = 0)

\* The proxy answered at least once in this call, and the direct API has
\* not answered yet: last, got and r429 are the proxy's.
ProxyAnswered(fr) ==
    /\ fr.nreq.proxy > 0
    /\ ~(fr.pc = "proxy" /\ fr.retryCount = 0)
    /\ ~ApiAnswered(fr)

\* The proxy is over, and last, got and r429 still tell how it ended.
ProxyEnded(fr) ==
    ProxyAnswered(fr) /\ (fr.pc = "api" \/ (fr.pc = "done" /\ fr.nreq.api = 0))

\* The direct API is over.
ApiEnded(fr) == ApiAnswered(fr) /\ fr.pc = "done"

\* The first of the values that is a non-empty array, or the empty array.
FirstNonEmpty(values) ==
    IF FirstIndex(values, NonEmpty) = 0
    THEN Arr(<<>>)
    ELSE values[FirstIndex(values, NonEmpty)]

Yields(fr) == <<fr.cached, fr.jsApiResult, fr.proxyResult, fr.apiResult>>

\* C2: getProductVariations never rejects; it resolves with an array, and
\* with the empty array when neither the cache nor a source yielded a
\* non-empty array.
FetchNeverFails ==
    \A f \in Fetchers :
        /\ fetch[f].pc # "rejected"
        /\ fetch[f].pc = "done" =>
              /\ fetch[f].value.kind = "array"
              /\ (FirstIndex(Yields(fetch[f]), NonEmpty) = 0
                     => fetch[f].value = Arr(<<>>))

\* C2 witness: the embedded API yielded nothing, the proxy failed three
\* times and the direct API failed after rate limits; the call resolved
\* with the empty array.
FetchNeverFailsWitness ==
    /\ fetch["f1"].pc = "done" /\ fetch["f1"].value = Arr(<<>>)
    /\ fetch["f1"].nreq.js = 1
    /\ fetch["f1"].nreq.proxy = 3 /\ fetch["f1"].proxyResult = JsNull
    /\ fetch["f1"].nreq.api = 4 /\ fetch["f1"].apiResult = JsNull
    /\ fetch["f1"].last = "429"

\* C3: the embedded API is called only after a cache miss, the proxy only
\* after that and an embedded API that is over without a non-empty result,
\* the direct API only after that and a proxy that is over without one; the
\* value returned is that of the first of them that yielded a non-empty one.
FetchSourceOrder ==
    \A f \in Fetchers :
        LET fr == fetch[f]
        IN  /\ fr.nreq.js > 0 => ~NonEmpty(fr.cached)
            /\ fr.nreq.proxy > 0 =>
                  /\ ~NonEmpty(fr.cached) /\ ~NonEmpty(fr.jsApiResult)
                  /\ fr.pc # "jsapi"
            /\ fr.nreq.api > 0 =>
                  /\ ~NonEmpty(fr.cached) /\ ~NonEmpty(fr.jsApiResult)
                  /\ ~NonEmpty(fr.proxyResult)
                  /\ fr.pc \notin {"jsapi", "proxy", "proxyWait"}
            /\ fr.pc = "done" => fr.value = FirstNonEmpty(Yields(fr))

\* C3 witness: all three sources were called, and the value is the direct
\* API's.
FetchSourceOrderWitness ==
    /\ fetch["f1"].pc = "done"
    /\ fetch["f1"].nreq.js = 1 /\ fetch["f1"].nreq.proxy > 0
    /\ fetch["f1"].nreq.api > 0
    /\ fetch["f1"].proxyResult = Arr(<<>>)
    /\ fetch["f1"].value = Arr(<<RecXS, RecM>>)

\* C4: a call that returns a source's non-empty result has the cache hold it
\* under the product id; and a call for an id that starts within one
\* expiration window of the last such write for that id, with no clearCache
\* in between, returns those records without a call to any source.
FetchCachesResult ==
    \A f \in Fetchers :
        LET fr == fetch[f]
        IN  /\ (fr.pc = "done" /\ NonEmpty(fr.value) /\ ~Truthy(fr.cached))
                  => fr.inCache
            /\ (fr.pc # "idle" /\ Truthy(fr.promised)) =>
                  /\ fr.pc = "done"
                  /\ SameRecords(fr.value.arr, fr.promised.arr)
                  /\ fr.nreq = [js |-> 0, proxy |-> 0, api |-> 0]

\* C4 witness: a call answered from the cache one expiration window after
\* the embedded API's records (with an undefined sku) were written.
FetchCachesResultWitness ==
    /\ fetch["f1"].pc = "done"
    /\ Truthy(fetch["f1"].promised)
    /\ fetch["f1"].nreq = [js |-> 0, proxy |-> 0, api |-> 0]
    /\ Len(fetch["f1"].value.arr) = 1
    /\ Prop(fetch["f1"].value.arr[1], "sku") = Undef
    /\ written[fetch["f1"].pid].valid
    /\ now - written[fetch["f1"].pid].at = ExpirationMs

\* C5: a network source that was answered 429 only ends without a value
\* only after four such answers; and a source that is answered a body
\* after 429s only returns that body.
RateLimitRetried ==
    \A f \in Fetchers :
        LET fr == fetch[f]
        IN  /\ (ProxyEnded(fr) /\ fr.last = "429" /\ fr.r429 = fr.nreq.proxy - 1)
                  => fr.nreq.proxy = 4
            /\ (ApiEnded(fr) /\ fr.last = "429" /\ fr.r429 = fr.nreq.api - 1)
                  => fr.nreq.api = 4
            /\ (ProxyEnded(fr) /\ fr.last = "ok" /\ fr.r429 = fr.nreq.proxy - 1)
                  => fr.proxyResult = fr.got
            /\ (ApiEnded(fr) /\ fr.last = "ok" /\ fr.r429 = fr.nreq.api - 1)
                  => fr.apiResult = fr.got

\* C5 witness: the proxy answered 429 three times and then a body, which is
\* the value of the call.
RateLimitRetriedWitness ==
    /\ fetch["f1"].pc = "done"
    /\ fetch["f1"].nreq.proxy = 4 /\ fetch["f1"].nreq.api = 0
    /\ fetch["f1"].r429 = 3 /\ fetch["f1"].last = "ok"
    /\ fetch["f1"].value = Arr(<<RecM>>)

\* History: the retries of the source at work, and those not made for 429.
Retries(fr) == IF ProxyEnded(fr) THEN fr.nreq.proxy - 1 ELSE fr.retryCount

OtherRetries(fr) == Retries(fr) - fr.r429

\* C6: a 429 is retried up to 3 times after (attempt index + 1) x 2 s, any
\* other failure up to 2 times after 1 s, and a source ends without a result
\* only when the budget of the failure it ends on is used up: 3 retries of
\* 429s for a 429, 2 retries of other failures for another failure.
RetryBudgets ==
    \A f \in Fetchers :
        LET fr == fetch[f]
        IN  /\ (fr.pc \in {"proxyWait", "apiWait"} /\ fr.last = "429") =>
                  (fr.delay = (fr.retryCount + 1) * 2000 /\ fr.r429 <= 3)
            /\ (fr.pc \in {"proxyWait", "apiWait"} /\ fr.last # "429") =>
                  (fr.delay = 1000 /\ OtherRetries(fr) < 2)
            /\ ((ProxyEnded(fr) \/ ApiEnded(fr)) /\ fr.last = "429")
                  => fr.r429 = 3
            /\ ((ProxyEnded(fr) /\ fr.last \in {"other", "403"})
                    \/ (ApiEnded(fr) /\ fr.last = "other"))
                  => OtherRetries(fr) = 2

\* C7: once the direct API answered 403 the call is over: it returned the
\* empty array, no wait was started, and the request answered 403 was the
\* last one.
ForbiddenEndsFetch ==
    \A f \in Fetchers :
        LET fr == fetch[f]
        IN  (ApiAnswered(fr) /\ fr.last = "403") =>
                /\ fr.pc = "done"
                /\ fr.value = Arr(<<>>)
                /\ fr.delay = 0
                /\ fr.nreq.api = fr.retryCount + 1

\* C7 witness: the direct API answered 403 to its third request.
ForbiddenEndsFetchWitness ==
    /\ ApiAnswered(fetch["f1"]) /\ fetch["f1"].last = "403"
    /\ fetch["f1"].nreq.api = 3
    /\ fetch["f1"].pc = "done"

\* C27: one fetch sends at most 4 requests to the proxy and at most 4 to
\* the direct API; every request after the first of a source is sent with
\* the attempt counter one higher; and the source whose fourth request
\* ends returns, with a value or with no result, in that step.
RetryBounded ==
    [][\A f \in SoloFetchers :
          /\ fetch[f].nreq.proxy <= 4 /\ fetch[f].nreq.api <= 4
          /\ \A src \in {"proxy", "api"} :
                /\ (fetch'[f].nreq[src] > fetch[f].nreq[src]
                        /\ fetch[f].nreq[src] > 0) =>
                      /\ fetch'[f].nreq[src] = fetch[f].nreq[src] + 1
                      /\ fetch'[f].retryCount = fetch[f].retryCount + 1
                /\ (fetch[f].pc = src /\ fetch[f].nreq[src] = 4
                        /\ fetch'[f] # fetch[f]) =>
                      fetch'[f].pc \in {"api", "done"}]_vars

\* C27 witness: a fetch has ended with no result after four requests to the
\* proxy and four to the direct API.
RetryBoundedWitness ==
    /\ fetch["f1"].pc = "done"
    /\ fetch["f1"].nreq.proxy = 4
    /\ fetch["f1"].nreq.api = 4
    /\ fetch["f1"].value = Arr(<<>>)

\* What the cache holds at instant t: the products Cache.getAll reads, and
\* the timestamp of the blob it leaves.
CacheHolds(st, t) ==
    [products  |-> CacheGetAll(st, t).products,
     timestamp |-> CacheGetAll(st, t).storage.timestamp]

\* Call f goes past its cache lookup or handles an answer in this step.
FetchStep(f) == fetch'[f] # fetch[f]

\* Call f returns, in this step, the non-empty result of a source.
ReturnsFromSource(f) ==
    /\ fetch[f].pc \in {"jsapi", "proxy", "api"}
    /\ fetch'[f].pc = "done"
    /\ NonEmpty(fetch'[f].value)

---------------------------------------------------------------------------
(* Claims about concurrent fetches, checked under SpecPair.                *)

\* Call f has obtained a non-empty result from a source and has returned
\* it, and the expiration window of that write is not over.
FreshFromSource(f) ==
    /\ fetch[f].pc = "done"
    /\ ~Truthy(fetch[f].cached)
    /\ NonEmpty(fetch[f].value)
    /\ written[fetch[f].pid].valid
    /\ now - written[fetch[f].pid].at <= ExpirationMs

\* C29: when the two calls, in flight together for different products,
\* have each returned a source's non-empty result within the expiration
\* window, the cache holds the entry of each.
NoLostUpdate ==
    (\A f \in Fetchers : FreshFromSource(f)) =>
        \A f \in Fetchers :
            /\ Truthy(CacheGet(storage, now, fetch[f].pid).value)
            /\ SameRecords(CacheGet(storage, now, fetch[f].pid).value.arr,
                           fetch[f].value.arr)

\* C29 witness: both calls have returned different records from their
\* sources, the second one half a window after the first, and both entries
\* are within their window.
NoLostUpdateWitness ==
    /\ \A f \in Fetchers : FreshFromSource(f)
    /\ fetch["f1"].value # fetch["f2"].value
    /\ written["p1"].at # written["p2"].at

---------------------------------------------------------------------------
(* Claims about the cache, checked under SpecCache.                        *)

\* C8: a get of a product within one expiration window of the last set of
\* that product, with no clearCache in between, returns the records that
\* were set, whatever was set or got for other products in between.
CacheRoundTrip ==
    (/\ ret.op = "get"
     /\ written[ret.pid].valid
     /\ ret.at - written[ret.pid].at <= ExpirationMs)
    => (/\ Truthy(ret.value)
        /\ SameRecords(ret.value.arr, written[ret.pid].recs))

\* C8 witness: p1 set, then p2 set later, then p1 got exactly one window
\* after its set; p1's records hold a property whose value is undefined.
CacheRoundTripWitness ==
    /\ ret.op = "get" /\ ret.pid = "p1"
    /\ written["p1"].valid /\ written["p2"].valid
    /\ written["p1"].recs = <<RecJs>>
    /\ written["p2"].at > written["p1"].at
    /\ ret.at > written["p2"].at
    /\ ret.at - written["p1"].at = ExpirationMs
    /\ Truthy(ret.value)

\* C9: a get that finds a blob written more than one expiration window ago
\* returns absent and leaves the storage without any blob, so every
\* product is absent afterwards.
CacheExpiration ==
    (ret.op = "get" /\ ret.stale)
    => (/\ ret.value = JsNull
        /\ storage = Missing
        /\ \A p \in ProductIds : CacheGet(storage, now, p).value = JsNull)

\* C9 witness: both products were stored, and the get of one of them found
\* the blob expired.
CacheExpirationWitness ==
    /\ ret.op = "get" /\ ret.stale /\ ret.pid = "p1"
    /\ written["p1"].valid /\ written["p2"].valid
    /\ ~storage.present

\* C10: the records a get returns for a product were set for that product
\* at most one expiration window before the get.
CacheAgeBound ==
    (ret.op = "get" /\ Truthy(ret.value))
    => ret.at - written[ret.pid].at <= ExpirationMs

\* Ecwid.OnAPILoaded: startObservingProducts.
startObservingProducts ==
    /\ productObserver' = TRUE
    /\ UNCHANGED <<presence, processed, selectors, fetching, frames, outcome,
                   isProcessing, processingTimeout, runPc, runRest,
                   processingQueue, debounceTimer, drainTimers>>
    /\ UNCHANGED <<cacheVars, fetchVars, pureVars>>

\* The storefront renders card n; the mutation observer's callback, when
\* there is an observer, queues the card and restarts the debounce timer.
HostAddsNode(n) ==
    /\ presence[n] = "absent"
    /\ presence' = [presence EXCEPT ![n] = "attached"]
    /\ IF productObserver /\ processed[n] # "true"
       THEN /\ processingQueue' = processingQueue \cup {n}
            /\ debounceTimer' = TRUE
       ELSE UNCHANGED <<processingQueue, debounceTimer>>
    /\ UNCHANGED <<processed, selectors, fetching, frames, outcome,
                   isProcessing, processingTimeout, runPc, runRest,
                   drainTimers, productObserver>>
    /\ UNCHANGED <<cacheVars, fetchVars, pureVars>>

\* The storefront removes card n from the document.
HostRemovesNode(n) ==
    /\ presence[n] = "attached"
    /\ presence' = [presence EXCEPT ![n] = "detached"]
    /\ UNCHANGED <<processed, selectors, fetching, frames, outcome,
                   isProcessing, processingTimeout, runPc, runRest,
                   processingQueue, debounceTimer, drainTimers,
                   productObserver>>
    /\ UNCHANGED <<cacheVars, fetchVars, pureVars>>

\* The debounce timer fires: processQueue empties the queue and starts a
\* stagger timer for each card that is not flagged 'true'.
DebounceFires ==
    /\ debounceTimer
    /\ debounceTimer' = FALSE
    /\ processingQueue' = {}
    /\ drainTimers' =
          drainTimers \cup {n \in processingQueue : processed[n] # "true"}
    /\ UNCHANGED <<presence, processed, selectors, fetching, frames, outcome,
                   isProcessing, processingTimeout, runPc, runRest,
                   productObserver>>
    /\ UNCHANGED <<cacheVars, fetchVars, pureVars>>

\* The stagger timer of card n fires: processQueue calls processProduct.
DrainTimerFires(n) ==
    /\ n \in drainTimers
    /\ drainTimers' = drainTimers \ {n}
    /\ processProduct({n}, "queue")
    /\ UNCHANGED <<presence, selectors, frames, outcome, isProcessing,
                   processingTimeout, runPc, runRest, processingQueue,
                   debounceTimer, productObserver>>
    /\ UNCHANGED <<cacheVars, fetchVars, pureVars>>

\* MushkanaSizeSelector.reprocessAll()
reprocessAll ==
    LET reset == [n \in Nodes |->
                     IF presence[n] = "attached" /\ processed[n] # Undef
                     THEN "false"
                     ELSE processed[n]]
    IN  /\ processed' = reset
        /\ selectors' = cleanupPreviousSelectors(reset)
        /\ processAllProducts
        /\ UNCHANGED <<presence, fetching, frames, outcome, runRest,
                       processingQueue, debounceTimer, drainTimers,
                       productObserver>>
        /\ UNCHANGED <<cacheVars, fetchVars, pureVars>>

\* The fragments the cleanup removes, summed over the cards it looks at.
RECURSIVE DuplicatesIn(_)
DuplicatesIn(cards) ==
    IF cards = <<>>
    THEN 0
    ELSE (selectors[Head(cards)] - KeepFirst(selectors[Head(cards)]))
            + DuplicatesIn(Tail(cards))

\* MushkanaSizeSelector.removeDuplicates(): returns duplicatesRemoved.
removeDuplicates ==
    /\ selectors' = cleanupPreviousSelectors(processed)
    /\ output' = [pc      |-> "removeDuplicates",
                  removed |-> DuplicatesIn(getAllProductCards(processed))]
    /\ UNCHANGED <<presence, processed, fetching, frames, outcome,
                   isProcessing, processingTimeout, runPc, runRest,
                   processingQueue, debounceTimer, drainTimers,
                   productObserver>>
    /\ UNCHANGED <<cacheVars, fetchVars, input>>

InitDom == InitCacheVars /\ InitFetchVars /\ InitDomVars /\ InitPureVars

NextDom ==
    \/ startObservingProducts
    \/ PageLoaded
    \/ SettleFires
    \/ BatchSettled
    \/ PauseFires
    \/ DebounceFires
    \/ reprocessAll
    \/ removeDuplicates
    \/ \E n \in Nodes : HostAddsNode(n)
    \/ \E n \in Nodes : HostRemovesNode(n)
    \/ \E n \in Nodes : DrainTimerFires(n)
    \/ \E n \in Nodes, c \in Callers, result \in FetchResults :
          PipeFetched(n, c, result)
    \/ \E n \in Nodes : FrameFires(n)

SpecDom == InitDom /\ [][NextDom]_vars

\* The event loop runs every timer, animation frame and promise reaction
\* that is due; a fetch ends, since getProductVariations never hangs on a
\* source that answers. The storefront and the callers of the public API
\* are free to do nothing.
DomFairness ==
    /\ WF_vars(SettleFires)
    /\ WF_vars(BatchSettled)
    /\ WF_vars(PauseFires)
    /\ WF_vars(DebounceFires)
    /\ \A n \in Nodes :
          /\ WF_vars(DrainTimerFires(n))
          /\ WF_vars(FrameFires(n))
          /\ \A c \in Callers :
                WF_vars(\E result \in FetchResults : PipeFetched(n, c, result))

SpecDomFair == SpecDom /\ DomFairness

\* The event loop runs the timers of processAllProducts and the reaction
\* to Promise.allSettled; nothing is assumed of the pipelines.
RunFairness ==
    /\ WF_vars(SettleFires)
    /\ WF_vars(BatchSettled)
    /\ WF_vars(PauseFires)

SpecDomRun == SpecDom /\ RunFairness

---------------------------------------------------------------------------
(* The cleanup of duplicates, on a page where the storefront's rendering   *)
(* has copied selector fragments.                                          *)

\* The most fragments a card holds when the cleanup is called.
MaxFragments == 3

InitCleanup ==
    /\ InitCacheVars /\ InitFetchVars /\ InitPureVars
    /\ presence \in [Nodes -> {"attached", "detached"}]
    /\ processed \in [Nodes -> {Undef, "true", "false"}]
    /\ selectors \in [Nodes -> 0..MaxFragments]
    /\ fetching = [n \in Nodes |-> {}]
    /\ frames = [n \in Nodes |-> 0]
    /\ outcome = [n \in Nodes |-> "none"]
    /\ isProcessing = FALSE
    /\ processingTimeout = FALSE
    /\ runPc = "idle"
    /\ runRest = <<>>
    /\ processingQueue = {}
    /\ debounceTimer = FALSE
    /\ drainTimers = {}
    /\ productObserver = TRUE

NextCleanup ==
    \/ removeDuplicates
    \/ reprocessAll

SpecCleanup == InitCleanup /\ [][NextCleanup]_vars

---------------------------------------------------------------------------
(* extractSizes and createSizeSelector applied to bounded inputs.          *)

\* The longest array of records given to extractSizes.
MaxVariations == 4

\* The options of the records given: a size option under several names, a
\* size option that has only a translated name and comes after another
\* option, and no size option.
OptionLists ==
    {<<[name |-> "Talle", value |-> "L"]>>,
     <<[name |-> "TALLES", value |-> "XS"]>>,
     <<[name |-> "size", value |-> "M"]>>,
     <<[name |-> "Talle", value |-> "Q"]>>,
     <<[name |-> "Color", value |-> "Rojo"],
       [name |-> Undef, nameTranslated |-> "Talla", value |-> "xs"]>>,
     <<[name |-> "Color", value |-> "Rojo"]>>}

\* The values of inStock and unlimited in a record.
StockFlags == {"true", "false", "null", Undef}

\* The record at index i of the array given: its id tells its index.
Variation(i, options, inStock, unlimited) ==
    [id |-> ToString(i), options |-> options, inStock |-> inStock,
     unlimited |-> unlimited, sku |-> "SKU", price |-> "10"]

SizeInputs ==
    UNION {{Arr([i \in 1..n |-> Variation(i, f[i], "true", "false")]) :
               f \in [1..n -> OptionLists]} : n \in 0..MaxVariations}

StockInputs ==
    {Arr(<<Variation(1, <<[name |-> "Talle", value |-> "M"]>>, a, u)>>) :
        a \in StockFlags, u \in StockFlags}

InitSizes ==
    /\ InitCacheVars /\ InitFetchVars /\ InitDomVars /\ NoCards
    /\ input \in SizeInputs \cup StockInputs \cup {JsNull, JsObject}
    /\ output = NoOutput

\* const sizes = extractSizes(variations)
ExtractSizesCall ==
    /\ output.pc = "idle"
    /\ output' = [pc |-> "extracted", sizes |-> extractSizes(input)]
    /\ UNCHANGED <<cacheVars, fetchVars, domVars, input>>

\* const sizeSelector = createSizeSelector(sizes, productId)
CreateSelectorCall ==
    /\ output.pc = "extracted"
    /\ output' = [pc      |-> "built",
                  sizes   |-> output.sizes,
                  isNull  |-> createSizeSelector(output.sizes).isNull,
                  buttons |-> createSizeSelector(output.sizes).buttons]
    /\ UNCHANGED <<cacheVars, fetchVars, domVars, input>>

\* The shopper activates button k of the fragment: a disabled button gets
\* no click event, and an enabled one runs its listener if it has one.
Activate(k) ==
    /\ output.pc = "built"
    /\ k \in DOMAIN output.buttons
    /\ output' = [pc      |-> "activated",
                  sizes   |-> output.sizes,
                  isNull  |-> output.isNull,
                  buttons |-> output.buttons,
                  target  |-> k,
                  ran     |-> ~output.buttons[k].disabled
                                 /\ output.buttons[k].listener]
    /\ UNCHANGED <<cacheVars, fetchVars, domVars, input>>

NextSizes ==
    \/ ExtractSizesCall
    \/ CreateSelectorCall
    \/ \E k \in 1..MaxVariations : Activate(k)

SpecSizes == InitSizes /\ [][NextSizes]_vars

---------------------------------------------------------------------------
(* Claims about the processing engine, checked under SpecDom.              *)

\* C1: however the pipelines of one product card interleave, the card
\* never holds more than one selector fragment, and it holds exactly one
\* once a pipeline whose fetch gave at least one size has ended on it and
\* the card is still in the document.
SingleSelector ==
    \A n \in Nodes :
        /\ selectors[n] <= 1
        /\ (outcome[n] # "none" /\ presence[n] = "attached")
              => selectors[n] = 1

\* C1 witness: two pipelines raced on the first card, both past their
\* second existing-selector check; the frame of one inserted its fragment
\* and the frame of the other found it and dropped its own.
SingleSelectorWitness ==
    /\ outcome["n1"] = "discarded"
    /\ selectors["n1"] = 1
    /\ presence["n1"] = "attached"
    /\ frames["n1"] = 0

---------------------------------------------------------------------------
(* More claims about the cache, checked under SpecCache.                   *)

\* The instants the clock can show from now on.
LaterInstants == {now + k * ClockStepMs : k \in 0..MaxClockSteps}

\* C11: a set on a cache that has not expired keeps the records of every
\* other product, stores the records under the product id, and writes the
\* current instant as the blob's timestamp, so that from then on every
\* entry, old or new, is served up to one expiration window after this set
\* and none is served later.
SetRefreshesWindow ==
    [][\A pid \in ProductIds, recs \in RecordSeqs :
          (SetCall(pid, recs) /\ ~CacheExpired(storage, now)) =>
              /\ storage'.present
              /\ storage'.timestamp = now
              /\ DOMAIN storage'.products = (DOMAIN storage.products) \cup {pid}
              /\ \A q \in (DOMAIN storage.products) \ {pid} :
                    storage'.products[q] = storage.products[q]
              /\ SameRecords(storage'.products[pid], recs)
              /\ \A t \in LaterInstants, q \in DOMAIN storage'.products :
                    Truthy(CacheGet(storage', t, q).value)
                        <=> (t - now <= ExpirationMs)]_vars

\* C11 witness: a set has just been made on a blob that held, and still
\* holds, the records another product was given at an earlier instant.
SetRefreshesWindowWitness ==
    /\ ret.op = "set"
    /\ storage.present
    /\ storage.timestamp = ret.at
    /\ \E q \in ProductIds \ {ret.pid} :
          /\ q \in DOMAIN storage.products
          /\ written[q].valid
          /\ written[q].at < ret.at

---------------------------------------------------------------------------
(* Claims about the cache on a failing storage, checked under SpecStore.   *)

\* The blob cannot be read in this call: it is missing, it does not parse,
\* or getItem raises.
Unreadable(st, faults) == ~st.present \/ ~st.parsable \/ "read" \in faults

\* The step is a call of the Cache operation op: every call records itself
\* in ret, and only the clock step leaves ret alone.
CallStep(op) == ret'.op = op /\ now' = now

\* The call of this step did not raise, and if it is a get of an unreadable
\* blob it returned null.
BestEffort ==
    /\ ~ret'.raised
    /\ (CallStep("get") /\ Unreadable(storage, ret'.faults))
          => ret'.value = JsNull

\* C12, as claimed: get, set and clear never raise, a get of a missing or
\* unreadable blob returns null, and a set whose write fails leaves the
\* stored blob as it was.
FailedSetKeepsBlob ==
    [][/\ BestEffort
       /\ (CallStep("set") /\ "write" \in ret'.faults)
             => storage' = storage]_vars

\* C12, as the code has it: a set whose write fails leaves the stored blob
\* as it was unless the blob had expired and could be read and removed;
\* then the set has removed it before its write failed.
FailedSetKeepsFreshBlob ==
    [][/\ BestEffort
       /\ (CallStep("set") /\ "write" \in ret'.faults)
             => storage' =
                   IF /\ ~Unreadable(storage, ret'.faults)
                      /\ CacheExpired(storage, now)
                      /\ "remove" \notin ret'.faults
                   THEN Missing
                   ELSE storage]_vars

\* C12 witness: a set whose write failed has just ended without raising on
\* a blob that holds records and had not expired; the blob is still there.
FailedSetKeepsFreshBlobWitness ==
    /\ ret.op = "set"
    /\ "write" \in ret.faults
    /\ ~ret.raised
    /\ ~ret.stale
    /\ storage.present /\ storage.parsable
    /\ DOMAIN storage.products # {}

---------------------------------------------------------------------------
(* Claims about extractSizes and createSizeSelector, checked under         *)
(* SpecSizes.                                                              *)

\* The records given, as a sequence.
Given == IF input.kind = "array" THEN input.arr ELSE <<>>

\* The size-option synonym set, matched case-insensitively.
SizeSynonyms == {"size", "talla", "talle", "talles"}

\* The indexes of the records given that have a size option.
WithSize ==
    {i \in DOMAIN Given :
        \E k \in DOMAIN Given[i].options :
            ToLowerCase(OptName(Given[i].options[k])) \in SizeSynonyms}

\* The rank table; a value it does not have ranks after all it has.
RankTable == <<"XS", "S", "M", "L", "XL", "XXL", "XXXL">>

TableRank(value) ==
    IF \E r \in DOMAIN RankTable : RankTable[r] = ToUpperCase(value)
    THEN CHOOSE r \in DOMAIN RankTable : RankTable[r] = ToUpperCase(value)
    ELSE Len(RankTable) + 1

\* The index in the array given of the record entry k was made from.
SourceOf(k) == CHOOSE i \in DOMAIN Given : Given[i].id = output.sizes[k].variationId

\* C13: extractSizes returns exactly one entry for each record given that
\* has an option named by the size synonym set, whatever the case, and no
\* other entry; the entries are in the order of the rank table, values the
\* table does not have last, and entries of equal rank in the order given.
SizesExtracted ==
    output.pc # "idle" =>
        /\ Len(output.sizes) = Cardinality(WithSize)
        /\ \A i \in WithSize :
              \E k \in DOMAIN output.sizes : output.sizes[k].variationId = Given[i].id
        /\ \A k \in DOMAIN output.sizes : SourceOf(k) \in WithSize
        /\ \A k, l \in DOMAIN output.sizes :
              k < l =>
                  \/ TableRank(output.sizes[k].value) < TableRank(output.sizes[l].value)
                  \/ /\ TableRank(output.sizes[k].value) = TableRank(output.sizes[l].value)
                     /\ SourceOf(k) < SourceOf(l)

\* C13 witness: the records given have the sizes L, XS, M, Q and the
\* entries returned have XS, M, L, Q.
SizesExtractedWitness ==
    /\ output.pc = "extracted"
    /\ Len(Given) = 4
    /\ \A i \in DOMAIN Given : Len(Given[i].options) = 1
    /\ [i \in DOMAIN Given |-> Given[i].options[1].value] = <<"L", "XS", "M", "Q">>
    /\ [k \in DOMAIN output.sizes |-> output.sizes[k].value] = <<"XS", "M", "L", "Q">>

\* The record is not explicitly out of stock, and unlimited is set or
\* inStock is true.
Available(variation) ==
    /\ Prop(variation, "inStock") # "false"
    /\ \/ Prop(variation, "unlimited") \notin FalsyScalars
       \/ Prop(variation, "inStock") = "true"

\* C14: the control built for a record is enabled and has an activation
\* handler exactly when the record is not explicitly out of stock and
\* unlimited is set or inStock is true; otherwise its entry has inStock
\* false, the control is disabled and has no handler, and activating it
\* runs nothing.
StockDecidesControl ==
    output.pc \in {"built", "activated"} =>
        /\ \A k \in DOMAIN output.buttons :
              IF Available(Given[SourceOf(k)])
              THEN ~output.buttons[k].disabled /\ output.buttons[k].listener
              ELSE /\ output.sizes[k].inStock = "false"
                   /\ output.buttons[k].disabled
                   /\ ~output.buttons[k].listener
        /\ output.pc = "activated" =>
              (output.ran <=> Available(Given[SourceOf(output.target)]))

\* C14 witness: the control of a record with inStock false and unlimited
\* false was activated, and nothing ran.
StockDecidesControlWitness ==
    /\ output.pc = "activated"
    /\ Given[SourceOf(output.target)].inStock = "false"
    /\ Given[SourceOf(output.target)].unlimited = "false"
    /\ output.buttons[output.target].disabled
    /\ ~output.ran

---------------------------------------------------------------------------
(* Claims about the cleanup of duplicates, checked under SpecCleanup.      *)

\* The cards in the document.
InDocument == {n \in Nodes : presence[n] = "attached"}

\* The duplicates the cards in the document hold: every fragment but the
\* first of each card.
RECURSIVE DuplicatesOf(_)
DuplicatesOf(S) ==
    IF S = {}
    THEN 0
    ELSE LET n == CHOOSE m \in S : TRUE
         IN  (IF selectors[n] >= 2 THEN selectors[n] - 1 ELSE 0)
                + DuplicatesOf(S \ {n})

\* C15: after removeDuplicates, and after the cleanup of reprocessAll,
\* every card in the document that held two or more fragments holds one,
\* whether or not it is flagged as processed, every card that held none or
\* one holds as many as before, and removeDuplicates returns the number of
\* fragments removed.
CleanupLeavesOne ==
    [][(removeDuplicates \/ reprocessAll) =>
          /\ \A n \in InDocument :
                selectors'[n] = IF selectors[n] >= 2 THEN 1 ELSE selectors[n]
          /\ removeDuplicates => output'.removed = DuplicatesOf(InDocument)]_vars

---------------------------------------------------------------------------
(* More claims about the processing engine, checked under SpecDom.         *)

\* A pipeline starts its fetch on card n in this step.
FetchStarts(n) == fetching'[n] # fetching[n] /\ fetching[n] \subseteq fetching'[n]

\* C16: a pipeline that starts its fetch on a card has found the card's
\* flag not 'true' and has set it to 'true' in the same task; and a flag
\* that is 'true' stays 'true' in every step but a call of reprocessAll.
FlagOneWay ==
    [][\A n \in Nodes :
          /\ FetchStarts(n) => (processed[n] # "true" /\ processed'[n] = "true")
          /\ (processed[n] = "true" /\ processed'[n] # "true") => reprocessAll]_vars

\* C16 witness: the first card is flagged 'true' and a pipeline awaits its
\* fetch on it, while the stagger timer of processQueue is about to call
\* the pipeline on the same card.
FlagOneWayWitness ==
    /\ processed["n1"] = "true"
    /\ fetching["n1"] = {"batch"}
    /\ "n1" \in drainTimers

\* A run of processAllProducts starts in this step: its settle timer is
\* set.
RunStarts == runPc' = "settle" /\ runPc # "settle"

\* processAllProducts is called in this step.
ProcessAllCalled == PageLoaded \/ reprocessAll

\* C19: a run is in progress exactly while isProcessing is set; a run
\* starts only when none is in progress; and a call of processAllProducts
\* made while a run is in progress leaves the run where it is, scans
\* nothing and starts no pipeline.
RunsExclude ==
    [][/\ isProcessing <=> runPc # "idle"
       /\ RunStarts => (~isProcessing /\ runPc = "idle")
       /\ (ProcessAllCalled /\ isProcessing) =>
             UNCHANGED <<isProcessing, processingTimeout, runPc, runRest,
                         fetching, frames>>]_vars

\* C19 witness: reprocessAll has been called while a run awaits its batch:
\* the flag of the first card reads 'false' and the batch's pipeline is
\* still in flight on it.
RunsExcludeWitness ==
    /\ isProcessing
    /\ runPc = "batch"
    /\ processed["n1"] = "false"
    /\ fetching["n1"] = {"batch"}

\* C20: the step in which a run of processAllProducts starts leaves no
\* debounce timer of the mutation queue pending, so that no timer armed
\* before the run drains the queue after it.
RunCancelsDebounce == [][RunStarts => ~debounceTimer']_vars

\* Card n is in the document with the flag reprocessAll gave it.
ResetByReprocess(n) == presence[n] = "attached" /\ processed[n] = "false"

\* C18, checked under SpecDomFair: a card in the document whose flag
\* reprocessAll has reset is eventually flagged 'true' again by a pipeline,
\* unless the storefront removes it first.
ReprocessReaches ==
    \A n \in Nodes :
        ResetByReprocess(n) ~>
            (processed[n] = "true" \/ presence[n] # "attached")

\* C22: a step that inserts a selector fragment into a card finds the card
\* attached to the document.
InsertsIntoAttached ==
    [][\A n \in Nodes :
          selectors'[n] > selectors[n] => presence[n] = "attached"]_vars

\* A pipeline of the run's current batch has not settled.
BatchInFlight == \E n \in Nodes : "batch" \in fetching[n]

\* C30, checked under SpecDomRun: isProcessing is set only while a run is
\* in progress; the step that ends a run, after its last batch or at a scan
\* that finds no card, leaves it false; a call of processAllProducts made
\* while it is false starts a run; and a flag that is set is released
\* unless a pipeline of the current batch stays unsettled.
FlagReleased ==
    /\ [][/\ isProcessing => runPc # "idle"
          /\ (runPc # "idle" /\ runPc' = "idle") => ~isProcessing'
          /\ (ProcessAllCalled /\ ~isProcessing) =>
                (isProcessing' /\ runPc' = "settle")]_vars
    /\ isProcessing ~> (~isProcessing \/ BatchInFlight)

\* C30 witness: a second run has started after a first run ended with a
\* selector inserted.
FlagReleasedWitness ==
    /\ isProcessing
    /\ runPc = "settle"
    /\ \E n \in Nodes : selectors[n] = 1 /\ processed[n] = "true"

---------------------------------------------------------------------------
(* The server-side proxy: handler(req, res).                               *)

\* req.method
Methods == {"GET", "POST", "HEAD"}

\* req.query.productId: absent, empty (`?productId=`), or an id.
QueryIds == {Undef, ""} \cup ProductIds

\* The texts of the bodies the catalog's endpoint can answer with.
BodyTexts == {"", "<html>", "[]", "[ ]", "{}", "[M]", "[XS,M]"}

\* JSON.parse of a body text; the texts it rejects give "throws".
JsonParse(text) ==
    CASE text \in {"[]", "[ ]"} -> Arr(<<>>)
      [] text = "{}" -> JsObject
      [] text = "[M]" -> Arr(<<RecM>>)
      [] text = "[XS,M]" -> Arr(<<RecXS, RecM>>)
      [] OTHER -> [kind |-> "throws", arr |-> <<>>]

\* JSON.stringify of a parsed body, as res.json sends it.
JsonStringify(data) ==
    CASE data = Arr(<<>>) -> "[]"
      [] data = JsObject -> "{}"
      [] data = Arr(<<RecM>>) -> "[M]"
      [] data = Arr(<<RecXS, RecM>>) -> "[XS,M]"
      [] OTHER -> "null"

\* response.ok
ResponseOk(status) == status \in 200..299

\* What the call of fetch(API_URL) ends with: a rejection, or an answer
\* with a status and a body whose reading succeeds or is cut short.
UpstreamAnswers ==
    {[kind |-> "rejects", status |-> 0, text |-> "", readable |-> FALSE]}
        \cup {[kind |-> "answers", status |-> st, text |-> t, readable |-> r] :
                 st \in {200, 204, 404, 429, 503}, t \in BodyTexts,
                 r \in BOOLEAN}

\* A request together with what the catalog will answer to it.
Requests ==
    {[method |-> m, productId |-> q, upstream |-> u] :
        m \in Methods, q \in QueryIds, u \in UpstreamAnswers}

\* res.status(status).json(...): what the client receives.
Respond(status, error, details, sent, cacheControl, contacted) ==
    [pc |-> "responded", status |-> status, error |-> error,
     details |-> details, sent |-> sent, cacheControl |-> cacheControl,
     contacted |-> contacted]

\* Mutant: the handler checking the query before the method.
handlerRejectsQueryFirst(req) ==
    IF req.productId \in FalsyScalars THEN 400
    ELSE IF req.method # "GET" THEN 405 ELSE 0

\* The two checks before the try block: the status the handler rejects the
\* request with, 0 when it goes on to the upstream call.
handlerRejects(req) ==
    IF req.method # "GET" THEN 405
    ELSE IF req.productId \in FalsyScalars THEN 400 ELSE 0

\* The try block of the handler once fetch() has settled.
handlerTry(up) ==
    IF up.kind = "rejects"
    THEN Respond(500, "Internal server error", "", "", "", TRUE)
    ELSE IF ~ResponseOk(up.status)
    THEN IF up.readable
         THEN Respond(up.status, "Ecwid API error: " \o ToString(up.status),
                      up.text, "", "", TRUE)
         ELSE Respond(500, "Internal server error", "", "", "", TRUE)
    ELSE IF up.readable /\ JsonParse(up.text).kind # "throws"
    THEN Respond(200, "", "", JsonStringify(JsonParse(up.text)),
                 "public, s-maxage=3600, stale-while-revalidate=86400", TRUE)
    ELSE Respond(500, "Internal server error", "", "", "", TRUE)

InitProxy ==
    /\ InitCacheVars /\ InitFetchVars /\ InitDomVars /\ NoCards
    /\ input \in Requests
    /\ output = NoOutput

\* handler(req, res) up to its first await.
HandlerCall ==
    /\ output.pc = "idle"
    /\ output' =
          CASE handlerRejects(input) = 405 ->
                   Respond(405, "Method not allowed", "", "", "", FALSE)
            [] handlerRejects(input) = 400 ->
                   Respond(400, "productId is required", "", "", "", FALSE)
            [] OTHER -> [pc |-> "upstream"]
    /\ UNCHANGED <<cacheVars, fetchVars, domVars, input>>

\* The upstream call settles and the handler runs to its end.
UpstreamSettles ==
    /\ output.pc = "upstream"
    /\ output' = handlerTry(input.upstream)
    /\ UNCHANGED <<cacheVars, fetchVars, domVars, input>>

NextProxy == HandlerCall \/ UpstreamSettles

SpecProxy == InitProxy /\ [][NextProxy]_vars

---------------------------------------------------------------------------
(* Claims about the proxy handler, checked under SpecProxy.                *)

\* The request the handler was called with asks for a product with GET.
WellFormed == input.method = "GET" /\ input.productId \notin FalsyScalars

\* The handler has sent the 200 response: the JSON of the upstream body,
\* with the cache directive.
SendsUpstreamJson ==
    /\ output.status = 200
    /\ JsonParse(output.sent) = JsonParse(input.upstream.text)
    /\ output.cacheControl =
          "public, s-maxage=3600, stale-while-revalidate=86400"

\* The upstream is contacted only for a well-formed request, and the cache
\* directive is set only on the 200 response.
ContactAndDirective ==
    /\ output.pc = "upstream" => WellFormed
    /\ output.pc = "responded" =>
          /\ output.contacted <=> WellFormed
          /\ output.cacheControl # "" <=> output.status = 200

\* C17 as stated: 405, else 400, else 500 when the call of fetch throws,
\* else the upstream's status when it is not 2xx, else 200 with the upstream
\* JSON and the cache directive.
HandlerOrder ==
    /\ ContactAndDirective
    /\ output.pc = "responded" =>
          IF input.method # "GET" THEN output.status = 405
          ELSE IF input.productId \in FalsyScalars THEN output.status = 400
          ELSE IF input.upstream.kind = "rejects" THEN output.status = 500
          ELSE IF ~ResponseOk(input.upstream.status)
               THEN output.status = input.upstream.status
          ELSE SendsUpstreamJson

\* Reading the upstream's body throws: the stream is cut short, or the body
\* of a 2xx answer is no JSON.
BodyThrows(up) ==
    \/ ~up.readable
    \/ ResponseOk(up.status) /\ JsonParse(up.text).kind = "throws"

\* C17 amended: 405, else 400, else 500 when the call of fetch or the
\* reading of the answer's body throws, else the upstream's status when it
\* is not 2xx, else 200 with the upstream JSON and the cache directive.
HandlerOrderReadable ==
    /\ ContactAndDirective
    /\ output.pc = "responded" =>
          IF input.method # "GET" THEN output.status = 405
          ELSE IF input.productId \in FalsyScalars THEN output.status = 400
          ELSE IF input.upstream.kind = "rejects" \/ BodyThrows(input.upstream)
               THEN output.status = 500
          ELSE IF ~ResponseOk(input.upstream.status)
               THEN output.status = input.upstream.status
          ELSE SendsUpstreamJson

\* C17 witness: the handler has answered a well-formed request for which
\* the upstream sent 200 and a body that is JSON with other spacing.
HandlerOrderReadableWitness ==
    /\ output.pc = "responded"
    /\ WellFormed
    /\ input.upstream.kind = "answers"
    /\ input.upstream.status = 200
    /\ input.upstream.readable
    /\ input.upstream.text = "[ ]"
    /\ output.status = 200

---------------------------------------------------------------------------
(* The batch loop of processAllProducts on a page with more cards than one *)
(* batch holds, and the loop of processQueue. The cards found (by the scan *)
(* or in the queue) are numbered in order, and a pipeline is followed from *)
(* its call to the settling of its promise.                                *)

\* The most cards the scan finds.
MaxCards == 11

\* The most cards in the queue when processQueue takes it.
MaxQueued == 3

\* for (i = 0; i < allProducts.length; i += batchSize)
\*     batches.push(allProducts.slice(i, i + batchSize))
RECURSIVE Slices(_)
Slices(cards) ==
    IF cards = <<>>
    THEN <<>>
    ELSE LET size == Min(batchSize, Len(cards))
         IN  <<SubSeq(cards, 1, size)>>
                 \o Slices(SubSeq(cards, size + 1, Len(cards)))

\* Mutant: the loop going on to the pause without awaiting the batch.
AllSettledUnawaited(inflight) == TRUE

\* await Promise.allSettled(promises): every promise of the batch has
\* settled.
AllSettled(inflight) == inflight = {}

\* How the async function given to batch.map ends for one card: the
\* pipeline returns, or throws into the catch of the function.
PipelineEnds == {"returns", "throws"}

\* const promises = batch.map(...): the pipeline of each card of batch k is
\* called.
MapBatch(run, k) ==
    [run EXCEPT !.pc = "batch",
                !.k = k,
                !.inflight = {run.batches[k][i] : i \in 1..Len(run.batches[k])},
                !.started = @ \cup
                    {run.batches[k][i] : i \in 1..Len(run.batches[k])}]

\* Mutant: the function given to map without its try/catch, awaited by
\* the loop directly: what a pipeline throws ends the loop.
PipelineEndedUncaught(run, c, how) ==
    IF how = "throws"
    THEN [run EXCEPT !.pc = "ended", !.inflight = @ \ {c},
                     !.isProcessing = FALSE, !.rejected = TRUE]
    ELSE [run EXCEPT !.inflight = @ \ {c}, !.returned = @ \cup {c}]

\* The async function given to map ends for card c: what the pipeline
\* throws is caught and logged inside it, so its promise is fulfilled
\* either way.
PipelineEnded(run, c, how) ==
    [run EXCEPT !.inflight = @ \ {c},
                !.returned = IF how = "returns" THEN @ \cup {c} ELSE @,
                !.caught = IF how = "throws" THEN @ \cup {c} ELSE @]

InitBatch ==
    /\ InitCacheVars /\ InitFetchVars /\ InitDomVars /\ NoCards
    /\ input \in {[caller |-> "processAllProducts", found |-> n] :
                     n \in 0..MaxCards}
                \cup {[caller |-> "processQueue", found |-> n] :
                         n \in 0..MaxQueued}
    /\ output = NoOutput

\* The settle timer fires: the scan, the batches, and the first batch, or
\* the early return when the scan found no card. For processQueue: the
\* debounce timer fires, and the cards of the queue are mapped at once.
LoopStarts ==
    /\ output.pc = "idle"
    /\ LET cards == [i \in 1..input.found |-> i]
           run == [pc |-> "ended", k |-> 0,
                   batches |-> IF input.caller = "processAllProducts"
                               THEN Slices(cards)
                               ELSE IF cards = <<>> THEN <<>> ELSE <<cards>>,
                   inflight |-> {}, started |-> {}, returned |-> {},
                   caught |-> {}, isProcessing |-> FALSE,
                   rejected |-> FALSE]
       IN  output' = IF Len(cards) = 0
                     THEN run
                     ELSE [MapBatch(run, 1) EXCEPT
                              !.isProcessing =
                                  input.caller = "processAllProducts"]
    /\ UNCHANGED <<cacheVars, fetchVars, domVars, input>>

\* The pipeline of card c ends; what it throws is caught and logged.
LoopPipelineEnds(c, how) ==
    /\ output.pc = "batch"
    /\ c \in output.inflight
    /\ output' = PipelineEnded(output, c, how)
    /\ UNCHANGED <<cacheVars, fetchVars, domVars, input>>

\* Promise.allSettled resolves: the pause between batches starts;
\* processQueue returns.
LoopBatchSettled ==
    /\ output.pc = "batch"
    /\ AllSettled(output.inflight)
    /\ output' = [output EXCEPT
                     !.pc = IF input.caller = "processAllProducts"
                            THEN "pause" ELSE "ended"]
    /\ UNCHANGED <<cacheVars, fetchVars, domVars, input>>

\* The pause is over: the next batch, or the finally block.
LoopPauseFires ==
    /\ output.pc = "pause"
    /\ output' = IF output.k < Len(output.batches)
                 THEN MapBatch(output, output.k + 1)
                 ELSE [output EXCEPT !.pc = "ended", !.isProcessing = FALSE]
    /\ UNCHANGED <<cacheVars, fetchVars, domVars, input>>

NextBatch ==
    \/ LoopStarts
    \/ LoopBatchSettled
    \/ LoopPauseFires
    \/ \E c \in 1..MaxCards, how \in PipelineEnds : LoopPipelineEnds(c, how)

SpecBatch == InitBatch /\ [][NextBatch]_vars

---------------------------------------------------------------------------
(* Claims about the batch loop, checked under SpecBatch.                   *)

\* The cards the scan found.
Found == 1..input.found

\* The batch card c is in.
BatchOf(c) ==
    CHOOSE k \in 1..Len(output.batches) :
        \E i \in 1..Len(output.batches[k]) : output.batches[k][i] = c

\* The pipeline of card c has settled.
Settled(c) == c \in output.returned \cup output.caught

\* C21: the batches hold at most 5 cards each and every card found is in
\* exactly one of them; at most 5 pipelines are in flight; and a pipeline
\* has started only if every pipeline of the batches before its own has
\* settled.
BatchesInTurn ==
    (output.pc # "idle" /\ input.caller = "processAllProducts") =>
        /\ \A k \in 1..Len(output.batches) :
              Len(output.batches[k]) \in 1..5
        /\ \A c \in Found :
              Cardinality({<<k, i>> \in (1..Len(output.batches)) \X (1..5) :
                              /\ i <= Len(output.batches[k])
                              /\ output.batches[k][i] = c}) = 1
        /\ Cardinality(output.inflight) <= 5
        /\ \A c \in output.started, d \in Found :
              BatchOf(d) < BatchOf(c) => Settled(d)

\* C21 witness: the pipelines of the third batch are in flight, after two
\* batches of five in which a pipeline threw.
BatchesInTurnWitness ==
    /\ output.pc = "batch"
    /\ output.k = 3
    /\ output.inflight # {}
    /\ output.caught # {}

\* C25: whatever the pipelines of a processAllProducts run or of a drain
\* throw, nothing is thrown out of the loop, the loop is never stuck before
\* its end, and at its end the pipeline of every card found has been
\* called and has settled.
FailuresIsolated ==
    output.pc # "idle" =>
        /\ ~output.rejected
        /\ output.pc # "ended" => ENABLED NextBatch
        /\ output.pc = "ended" =>
              /\ output.started = Found
              /\ \A c \in Found : Settled(c)

\* C25 witness: a run has ended after pipelines threw in its first batch
\* and pipelines of its third batch returned.
FailuresIsolatedWitness ==
    /\ input.caller = "processAllProducts"
    /\ output.pc = "ended"
    /\ \E c \in output.caught : BatchOf(c) = 1
    /\ \E c \in output.returned : BatchOf(c) = 3

---------------------------------------------------------------------------
(* The mutation observer, its debounce timer and the stagger timers of     *)
(* processQueue, with a clock. A pending debounce timer is the instant it  *)
(* is due at; a pending stagger timer is a card, its index in the drain,   *)
(* the instant the drain began and the instant the timer is due at.        *)

\* The last instant of the clock, in ms.
MaxClock == 600

\* The most mutation callbacks in one burst.
MaxBurst == 2

\* How far the clock moves in one step, in ms.
ClockSteps == {100, 200}

\* setTimeout(() => processQueue(), 300)
debounceDelay == 300

\* Mutant: the observer callback arming a timer without clearing the
\* pending one.
ArmDebounceUncleared(timers, clock) == timers \cup {clock + debounceDelay}

\* clearTimeout(debounceTimer); debounceTimer = setTimeout(..., 300)
ArmDebounce(timers, clock) == {clock + debounceDelay}

\* The cards one mutation adds, in document order.
AddedCards == {<<>>, <<"n1">>, <<"n2">>, <<"n1", "n2">>, <<"n2", "n1">>}

\* The cards of a sequence.
Range(seq) == {seq[i] : i \in 1..Len(seq)}

\* processingQueue.add(node), for each card of the mutation that is not
\* flagged 'true': a Set keeps insertion order and holds a card once.
RECURSIVE QueueAdd(_, _, _)
QueueAdd(queue, added, flags) ==
    IF added = <<>>
    THEN queue
    ELSE QueueAdd(IF Head(added) \in flags \/ Head(added) \in Range(queue)
                  THEN queue
                  ELSE Append(queue, Head(added)),
                  Tail(added), flags)

\* Mutant: processQueue starting every pipeline without a delay.
StaggerDueAtOnce(began, index) == began

\* setTimeout(resolve, index * 100)
StaggerDue(began, index) == began + index * 100

\* processQueue on the snapshot of the queue: a stagger timer for every
\* card that is not flagged 'true' when the drain begins.
StaggerTimers(snapshot, flags, clock) ==
    {[card |-> snapshot[i], index |-> i - 1, began |-> clock,
      due |-> StaggerDue(clock, i - 1)] :
        i \in {j \in 1..Len(snapshot) : snapshot[j] \notin flags}}

InitDebounce ==
    /\ InitCacheVars /\ InitFetchVars /\ InitDomVars /\ NoCards
    /\ input = NoInput
    /\ output = NoOutput

\* startObservingProducts(): the observer is created, nothing is queued
\* and no timer has been set.
ObserverStarts ==
    /\ output.pc = "idle"
    /\ output' = [pc |-> "observing", clock |-> 0, timers |-> {},
                  queue |-> <<>>, flags |-> {}, stagger |-> {},
                  enqueuedAt |-> 0, burst |-> 0, calls |-> 0,
                  quiet |-> debounceDelay, drained |-> 0]
    /\ UNCHANGED <<cacheVars, fetchVars, domVars, input>>

\* The observer callback runs for a mutation that added the product cards
\* `added`; it arms the timer when one of them is not flagged 'true'.
Mutation(added) ==
    /\ output.pc = "observing"
    /\ output.burst < MaxBurst
    /\ output' =
          IF Range(added) \subseteq output.flags
          THEN output
          ELSE [output EXCEPT
                   !.queue = QueueAdd(@, added, output.flags),
                   !.timers = ArmDebounce(@, output.clock),
                   !.enqueuedAt = output.clock,
                   !.burst = @ + 1,
                   !.calls = 0]
    /\ UNCHANGED <<cacheVars, fetchVars, domVars, input>>

\* Time passes.
ClockMoves(d) ==
    /\ output.pc = "observing"
    /\ output.clock + d <= MaxClock
    /\ output' = [output EXCEPT !.clock = @ + d]
    /\ UNCHANGED <<cacheVars, fetchVars, domVars, input>>

\* A debounce timer that is due fires: processQueue() takes the queue.
DebounceTimerFires(t) ==
    /\ output.pc = "observing"
    /\ t \in output.timers
    /\ t <= output.clock
    /\ output' = [output EXCEPT
                     !.timers = @ \ {t},
                     !.queue = <<>>,
                     !.stagger = @ \cup StaggerTimers(output.queue,
                                                      output.flags,
                                                      output.clock),
                     !.calls = @ + 1,
                     !.quiet = output.clock - output.enqueuedAt,
                     !.drained = IF output.queue = <<>> THEN @
                                 ELSE output.burst,
                     !.burst = 0]
    /\ UNCHANGED <<cacheVars, fetchVars, domVars, input>>

\* A stagger timer that is due fires: processProduct is called on its
\* card, and goes past its first check when the card is not flagged 'true'.
StaggerFires(s) ==
    /\ output.pc = "observing"
    /\ s \in output.stagger
    /\ s.due <= output.clock
    /\ output' = [output EXCEPT !.stagger = @ \ {s},
                                !.flags = @ \cup {s.card}]
    /\ UNCHANGED <<cacheVars, fetchVars, domVars, input>>

\* A pipeline of processAllProducts flags card n 'true'.
FlaggedByRun(n) ==
    /\ output.pc = "observing"
    /\ n \notin output.flags
    /\ output' = [output EXCEPT !.flags = @ \cup {n}]
    /\ UNCHANGED <<cacheVars, fetchVars, domVars, input>>

NextDebounce ==
    \/ ObserverStarts
    \/ \E added \in AddedCards : Mutation(added)
    \/ \E d \in ClockSteps : ClockMoves(d)
    \/ \E t \in 0..(MaxClock + debounceDelay) : DebounceTimerFires(t)
    \/ output.pc = "observing" /\ \E s \in output.stagger : StaggerFires(s)
    \/ \E n \in Nodes : FlaggedByRun(n)

SpecDebounce == InitDebounce /\ [][NextDebounce]_vars

---------------------------------------------------------------------------
(* Claims about the debounce, checked under SpecDebounce.                  *)

\* C23: at most one debounce timer is pending; processQueue is called only
\* when 300 ms have passed since the last mutation that queued a card; and
\* it is called at most once after that mutation, however many mutations
\* came before it in the burst.
Debounced ==
    output.pc = "observing" =>
        /\ Cardinality(output.timers) <= 1
        /\ output.quiet >= 300
        /\ output.calls <= 1

\* C23 witness: one call of processQueue has drained what a burst of two
\* mutations queued.
DebouncedWitness ==
    /\ output.pc = "observing"
    /\ output.drained = 2
    /\ output.calls = 1
    /\ output.timers = {}

\* processQueue takes the queue in this step.
DrainStep ==
    /\ output.pc = "observing"
    /\ output'.timers # output.timers
    /\ output'.timers \subseteq output.timers

\* The stagger timers that fire in this step.
Fired == output.stagger \ output'.stagger

\* C24: a drain empties the queue in its own step and gives exactly the
\* queued cards that are not flagged 'true' a stagger timer each, the card
\* at index i with index i; stagger timers are set by drains only, so a
\* card queued during a drain waits in the queue; a stagger timer fires no
\* earlier than index x 100 ms after its drain began; and the pipeline it
\* calls flags its card, and goes no further when the card is flagged.
DrainTakesQueue ==
    [][output.pc = "observing" =>
          /\ DrainStep =>
                /\ output'.queue = <<>>
                /\ \A i \in 1..Len(output.queue) :
                      Cardinality({s \in output'.stagger :
                                      /\ s.card = output.queue[i]
                                      /\ s.began = output.clock}) =
                          IF output.queue[i] \in output.flags THEN 0 ELSE 1
                /\ \A s \in output'.stagger \ output.stagger :
                      /\ s.index + 1 \in 1..Len(output.queue)
                      /\ output.queue[s.index + 1] = s.card
          /\ ~DrainStep =>
                /\ output'.stagger \subseteq output.stagger
                /\ Range(output.queue) \subseteq Range(output'.queue)
          /\ \A s \in Fired :
                /\ output.clock >= s.began + s.index * 100
                /\ output'.flags = output.flags \cup {s.card}]_vars

\* C24 witness: a drain is in progress, the card at index 1 waiting for
\* its stagger timer; a card is flagged 'true' and a card queued since the
\* drain began is in the queue.
DrainTakesQueueWitness ==
    /\ output.pc = "observing"
    /\ \E s \in output.stagger : s.index = 1 /\ s.due > output.clock
    /\ output.queue # <<>>
    /\ output.flags # {}

---------------------------------------------------------------------------
(* The callback of getProductVariationsFromJSAPI, applied to products.     *)

\* The names the product's option carries in the storefront's catalog.
OptionNames ==
    {"Talle", "talle", "TALLE", "Talla", "talla", "Size", "size", "SIZE",
     "Talles", "talles", "Color"}

\* Products with one option of two choices: without combinations, with two
\* combinations that carry the option, or with combinations of which one
\* carries it and one carries another option.
ProductsNamed(name) ==
    LET options == <<Option(name, <<Choice("S"), Choice("M")>>)>>
    IN  {Product(options, <<>>),
         Product(options, <<Combo("201", name, "S"), Combo("202", name, "M")>>),
         Product(options, <<Combo("201", name, "S"),
                            Combo("203", "Material", "Lana")>>)}

JsApiInputs ==
    JsProducts \cup UNION {ProductsNamed(name) : name \in OptionNames}

InitJsApi ==
    /\ InitCacheVars /\ InitFetchVars /\ InitDomVars /\ NoCards
    /\ input \in JsApiInputs
    /\ output = NoOutput

\* Ecwid.getProduct calls back with the product: the promise resolves.
GetProductCalledBack ==
    /\ output.pc = "idle"
    /\ output' = [pc |-> "resolved", value |-> GetProductCallback(input)]
    /\ UNCHANGED <<cacheVars, fetchVars, domVars, input>>

\* The caller reads the resolved value: no result, or the records.
ResultRead ==
    /\ output.pc = "resolved"
    /\ output' = [pc |-> "read", value |-> output.value]
    /\ UNCHANGED <<cacheVars, fetchVars, domVars, input>>

NextJsApi == GetProductCalledBack \/ ResultRead

SpecJsApi == InitJsApi /\ [][NextJsApi]_vars

---------------------------------------------------------------------------
(* Claims about the embedded client API source, checked under SpecJsApi.   *)

\* The option's name is a size synonym in some letter case.
SizeNamed(opt) == ToLowerCase(opt.name) \in {"size", "talla", "talle", "talles"}

\* The combinations of the product that carry a size option.
SizeCombos == SelectSeq(input.combinations,
                        LAMBDA combo : \E j \in 1..Len(combo.options) :
                                          SizeNamed(combo.options[j]))

\* The choices of the product's first size option.
SizeChoices ==
    input.options[CHOOSE k \in 1..Len(input.options) :
                     /\ SizeNamed(input.options[k])
                     /\ \A j \in 1..(k - 1) : ~SizeNamed(input.options[j])].choices

\* C26: for a product with a size option the source yields one record for
\* each combination that carries the size option when the product has
\* combinations, and else one in-stock record without SKU for each choice
\* of the option; and it yields no result only for a product without a
\* size option.
JsApiYields ==
    output.pc # "idle" =>
        IF input.exists /\ input.hasOptions
           /\ \E k \in 1..Len(input.options) : SizeNamed(input.options[k])
        THEN /\ output.value.kind = "array"
             /\ IF Len(input.combinations) > 0
                THEN /\ Len(output.value.arr) = Len(SizeCombos)
                     /\ \A i \in 1..Len(SizeCombos) :
                           output.value.arr[i].id = SizeCombos[i].id
                ELSE /\ Len(output.value.arr) = Len(SizeChoices)
                     /\ \A i \in 1..Len(SizeChoices) :
                           /\ output.value.arr[i].inStock = "true"
                           /\ output.value.arr[i].sku = "null"
                           /\ output.value.arr[i].options[1].value =
                                 SizeChoices[i].text
        ELSE TRUE

=============================================================================
